---- MODULE Spec2Model ----
(***************************************************************************)
(* Host-side bookkeeping of optixu: the Scene's shader-binding-table       *)
(* layout cache and the build / compact / update life cycle of geometry    *)
(* and instance acceleration structures (src/optix_util.cpp,               *)
(* src/optix_util_private.h).                                              *)
(*                                                                         *)
(* One Scene is modelled together with the nodes created under it.  GPU    *)
(* entry points are external: the sizes and handles they return are inputs *)
(* of the actions.  A call that throws is recorded in the variable `call'  *)
(* (ok = FALSE) together with whatever the handler had already written.    *)
(***************************************************************************)
EXTENDS Integers, Sequences, FiniteSets, TLC

\* ------------------------------------------------------------------ bounds
NumGAS        == 1      \* geometry acceleration structures of the Scene
NumIAS        == 1      \* instance acceleration structures of the Scene
NumGeomInst   == 1      \* geometry instances of the Scene
NumInst       == 1      \* instances of the Scene
NumMaterial   == 1      \* materials of the Context
NumTransform  == 2      \* transforms of the Scene
MaxAccelSize  == 2      \* largest byte size the backend reports / a buffer has
MaxHandle     == 1      \* largest traversable handle the backend returns
MaxMatSets    == 1      \* largest argument of setNumMaterialSets
MaxRayTypes   == 2      \* largest argument of setNumRayTypes
MaxNumMaterials == 1    \* largest argument of setNumMaterials
MaxKeys       == 2      \* largest motion key count / motion step count

\* ------------------------------------------------------- program constants
OPTIX_SBT_RECORD_HEADER_SIZE == 32
OPTIX_SBT_RECORD_ALIGNMENT   == 16

NULL == 0

\* The largest user data block of a Material, GeometryInstance and GAS
s_maxMaterialUserDataSize == 512
s_maxGeometryInstanceUserDataSize == 512
s_maxGASUserDataSize == 512

GASIds      == 1..NumGAS
IASIds      == 1..NumIAS
GeomInstIds == 1..NumGeomInst
InstIds     == 1..NumInst
MaterialIds == 1..NumMaterial
TransformIds == 1..NumTransform

\* A geometry instance / an instance created by a different Scene.
ForeignGeomInst == NumGeomInst + 1
ForeignInst     == NumInst + 1

Max(a, b) == IF a >= b THEN a ELSE b

RECURSIVE BitAnd(_, _)
BitAnd(a, b) ==
    IF a = 0 \/ b = 0 THEN 0
    ELSE (a % 2) * (b % 2) + 2 * BitAnd(a \div 2, b \div 2)

\* --------------------------------------------------------------- SizeAlign
SizeAlign(s, a) == [size |-> s, alignment |-> a]

SizeAlignDefault == SizeAlign(0, 1)

\* A size that is left where it is
AlignTo_kept(size, alignment) == size

\* size = (size + mask) & ~mask, written as x - (x & mask); the sizes of the
\* model stay far below 2^32, so no uint32 wrap-around can occur.
AlignTo(size, alignment) ==
    LET mask == alignment - 1
    IN  (size + mask) - BitAnd(size + mask, mask)

\* SizeAlign::add: the result and the offset handed back to the caller.
SizeAlign_add(self, sa) ==
    LET off == AlignTo(self.size, sa.alignment)
    IN  [sa     |-> SizeAlign(off + sa.size, Max(self.alignment, sa.alignment)),
         offset |-> off]

SizeAlign_plus(self, sa) == SizeAlign_add(self, sa).sa

SizeAlign_alignUp(self) == SizeAlign(AlignTo(self.size, self.alignment), self.alignment)

SizeAlign_max(sa0, sa1) ==
    SizeAlign(Max(sa0.size, sa1.size), Max(sa0.alignment, sa1.alignment))

\* ------------------------------------------------------------------- state
VARIABLES
    sbtLayoutIsUpToDate,   \* Scene::Priv
    singleRecordSize,
    numSBTRecords,
    sbtOffsets,            \* function from <<gas, matSetIdx>> to record offset
    geomASs,               \* sequence: the Scene's GAS set in iteration order
    instASs,               \* set of the Scene's IAS
    material,              \* Material::Priv per material
    geomInst,              \* GeometryInstance::Priv per geometry instance
    gas,                   \* GeometryAccelerationStructure::Priv per GAS
    inst,                  \* Instance::Priv per instance
    xfm,                   \* Transform::Priv per transform
    ias,                   \* InstanceAccelerationStructure::Priv per IAS
    pipeline,              \* Pipeline::Priv of the one Pipeline, with the
                           \*   contents of its hit group SBT on the device
    call,                  \* the last API call and its outcome
    edits,                 \* history: what happened since the previous
                           \*   generateShaderBindingTableLayout call
    editsDone              \* history: what happened since the previous
                           \*   generateShaderBindingTableLayout call that returned

vars == <<sbtLayoutIsUpToDate, singleRecordSize, numSBTRecords, sbtOffsets,
          geomASs, instASs, material, geomInst, gas, inst, xfm, ias, pipeline,
          call, edits, editsDone>>

sceneVars == <<sbtLayoutIsUpToDate, singleRecordSize, numSBTRecords, sbtOffsets,
               geomASs, instASs>>

Range(s) == {s[k] : k \in 1..Len(s)}

\* std::vector::resize(n, fill)
Resize(s, n, fill) ==
    [k \in 1..n |-> IF k <= Len(s) THEN s[k] ELSE fill]

\* std::vector::erase at the first position holding x
RECURSIVE EraseFirst(_, _)
EraseFirst(s, x) ==
    IF s = <<>> THEN <<>>
    ELSE IF Head(s) = x THEN Tail(s)
    ELSE <<Head(s)>> \o EraseFirst(Tail(s), x)

\* The record of an API call: whether it returned (ok) or threw, what it
\* returned, and the arguments of a call that returned.
Called(op, obj, args, ok, ret) ==
    [op |-> op, obj |-> obj, args |-> IF ok THEN args ELSE <<>>, ok |-> ok,
     ret |-> ret]

\* History of layout-relevant events since a generateShaderBindingTableLayout
\* call: "first" while there was no such call, "none", "child" when the only
\* events were successful GAS addChild / removeChild calls, "other" once any
\* other call reached Scene::Priv::markSBTLayoutDirty.
NotedIn(e, kind) ==
    IF kind = "other" THEN "other"
    ELSE IF e = "none" THEN "child"
    ELSE e

\* No call on the Scene or on one of its nodes writes to the Pipeline.
Noted(kind) ==
    /\ edits' = NotedIn(edits, kind)
    /\ editsDone' = NotedIn(editsDone, kind)
    /\ UNCHANGED pipeline

NothingNoted == UNCHANGED <<edits, editsDone, pipeline>>

\* History kept with each acceleration structure: `prepared' holds the memory
\* requirement the last successful prepareForBuild returned since the node
\* was last marked dirty, `sized' the compacted size the last prepareForCompact
\* read back since the last rebuild; both are empty when there was no such
\* call.
Forgotten(r) == [r EXCEPT !.prepared = {}, !.sized = {}]

\* ---------------------------------------------------------------- Material
\* Material::Priv constructor
MaterialPriv == [userDataSizeAlign |-> SizeAlignDefault, programs |-> {}]

\* -------------------------------------------------------- GeometryInstance
\* GeometryInstance::Priv constructor.  buffersValid stands for "every
\* vertex / AABB buffer view of every motion step is set and they agree in
\* element count and stride", the condition fillBuildInput and
\* updateBuildInput check; numSBTRecords is buildInputFlags.size().
GeometryInstancePriv(forCustomPrimitives) ==
    [forCustomPrimitives |-> forCustomPrimitives,
     numMotionSteps      |-> 1,
     buffersValid        |-> FALSE,
     numSBTRecords       |-> 0,
     materials           |-> <<>>,
     userDataSizeAlign   |-> SizeAlignDefault]

GeometryInstance_getScene(gi) == IF gi \in GeomInstIds THEN "scene" ELSE "otherScene"

\* A slot that resolves to its Material of material set 0 whatever the GAS
\* material set is
GeometryInstance_resolveMaterial_setZero(slot, gasMatSetIdx) == slot[1]

\* The Material a slot resolves to for a GAS material set: the set's own
\* Material when the slot has that set and it is bound, else material set 0.
GeometryInstance_resolveMaterial(slot, gasMatSetIdx) ==
    LET matSetIdx == IF gasMatSetIdx < Len(slot) THEN gasMatSetIdx ELSE 0
        mat       == slot[matSetIdx + 1]
    IN  IF mat = NULL THEN slot[1] ELSE mat

\* GeometryInstance::Priv::calcMaxRecordSizeAlign; ok = FALSE when it throws
\* because a slot has no default material.
RECURSIVE GeometryInstance_maxOverSlots(_, _, _, _)
GeometryInstance_maxOverSlots(mats, matIdx, gasMatSetIdx, acc) ==
    IF matIdx > Len(mats) THEN [ok |-> TRUE, sa |-> acc]
    ELSE IF mats[matIdx][1] = NULL THEN [ok |-> FALSE, sa |-> acc]
    ELSE LET mat == GeometryInstance_resolveMaterial(mats[matIdx], gasMatSetIdx)
             recordSizeAlign ==
                 SizeAlign_plus(SizeAlign(OPTIX_SBT_RECORD_HEADER_SIZE,
                                          OPTIX_SBT_RECORD_ALIGNMENT),
                                material[mat].userDataSizeAlign)
         IN  GeometryInstance_maxOverSlots(mats, matIdx + 1, gasMatSetIdx,
                                           SizeAlign_max(acc, recordSizeAlign))

GeometryInstance_calcMaxRecordSizeAlign(gi, gasMatSetIdx) ==
    LET r == GeometryInstance_maxOverSlots(geomInst[gi].materials, 1,
                                           gasMatSetIdx, SizeAlignDefault)
    IN  [ok |-> r.ok, sa |-> SizeAlign_plus(r.sa, geomInst[gi].userDataSizeAlign)]

GeometryInstance_getNumSBTRecords(gi) == geomInst[gi].numSBTRecords

\* ------------------------------------------ GeometryAccelerationStructure
BuildFlagBits == {"ALLOW_UPDATE", "ALLOW_COMPACTION", "ALLOW_RANDOM_VERTEX_ACCESS",
                  "PREFER_FAST_TRACE", "PREFER_FAST_BUILD"}

\* What optixAccelComputeMemoryUsage can report.
AccelBufferSizes ==
    { [outputSizeInBytes     |-> o,
       tempSizeInBytes       |-> MaxAccelSize + 1 - o,
       tempUpdateSizeInBytes |-> o] : o \in 1..MaxAccelSize }

\* GeometryAccelerationStructure::Priv constructor.  buildOptions and
\* memoryRequirement and compactedSize are not initialised by it: the
\* arguments stand for whatever the members hold.  finishEventCurrent says
\* that no GPU operation of the node was issued after the last
\* cuEventRecord(finishEvent, stream), or none was issued at all: waiting for
\* finishEvent then waits for everything issued for the node.
GeometryAccelerationStructurePriv(forCustomPrimitives, flags, req, csize) ==
    [forCustomPrimitives       |-> forCustomPrimitives,
     userDataSizeAlign         |-> SizeAlignDefault,
     numRayTypesPerMaterialSet |-> <<>>,
     children                  |-> <<>>,
     buildInputs               |-> 0,
     numKeys                   |-> 0,
     buildFlags                |-> flags,
     memoryRequirement         |-> req,
     compactedSize             |-> csize,
     handle                    |-> 0,
     compactedHandle           |-> 0,
     tradeoff                  |-> "Default",
     allowUpdate               |-> FALSE,
     allowCompaction           |-> FALSE,
     allowRandomVertexAccess   |-> FALSE,
     readyToBuild              |-> FALSE,
     available                 |-> FALSE,
     readyToCompact            |-> FALSE,
     compactedAvailable        |-> FALSE,
     finishEventCurrent        |-> TRUE,
     prepared                  |-> {},
     sized                     |-> {}]

GAS_getNumMaterialSets(g) == Len(gas[g].numRayTypesPerMaterialSet)

\* GeometryAccelerationStructure::Priv::calcMaxRecordSizeAlign
RECURSIVE GAS_maxOverChildren(_, _, _, _)
GAS_maxOverChildren(children, k, matSetIdx, acc) ==
    IF k > Len(children) THEN [ok |-> TRUE, sa |-> acc]
    ELSE LET r == GeometryInstance_calcMaxRecordSizeAlign(children[k].geomInst, matSetIdx)
         IN  IF ~r.ok THEN [ok |-> FALSE, sa |-> acc]
             ELSE GAS_maxOverChildren(children, k + 1, matSetIdx,
                                      SizeAlign_max(acc, r.sa))

GAS_calcMaxRecordSizeAlign(g, matSetIdx) ==
    LET r == GAS_maxOverChildren(gas[g].children, 1, matSetIdx, SizeAlignDefault)
    IN  [ok |-> r.ok, sa |-> SizeAlign_plus(r.sa, gas[g].userDataSizeAlign)]

\* GeometryAccelerationStructure::Priv::calcNumSBTRecords
RECURSIVE GAS_sumChildRecords(_, _)
GAS_sumChildRecords(children, k) ==
    IF k > Len(children) THEN 0
    ELSE GeometryInstance_getNumSBTRecords(children[k].geomInst)
         + GAS_sumChildRecords(children, k + 1)

\* calcNumSBTRecords without the multiplication by the ray type count
GAS_calcNumSBTRecords_noRayTypes(g, matSetIdx) ==
    GAS_sumChildRecords(gas[g].children, 1)

GAS_calcNumSBTRecords(g, matSetIdx) ==
    GAS_sumChildRecords(gas[g].children, 1)
    * gas[g].numRayTypesPerMaterialSet[matSetIdx + 1]

\* markDirty that forgets to withdraw readyToCompact
GASPriv_markDirty_keepsReadyToCompact(r) ==
    [r EXCEPT !.readyToBuild = FALSE, !.available = FALSE,
              !.compactedAvailable = FALSE]

\* The lifecycle part of GeometryAccelerationStructure::Priv::markDirty
GASPriv_markDirty(r) ==
    [r EXCEPT !.readyToBuild = FALSE, !.available = FALSE,
              !.readyToCompact = FALSE, !.compactedAvailable = FALSE]

GASPriv_isReady(r) == r.available \/ r.compactedAvailable

\* GeometryAccelerationStructure::Priv::getHandle (0 stands for the throw)
GASPriv_getHandle(r) ==
    IF r.compactedAvailable THEN r.compactedHandle
    ELSE IF r.available THEN r.handle
    ELSE 0

\* ---------------------------------------------------------------- Instance
\* matSetIndex of a fresh Instance is 0xFFFFFFFF; it only ever serves as a
\* key, so -1 stands for it.
InvalidMatSetIndex == -1

\* Instance::Priv constructor
InstancePriv == [type |-> "Invalid", child |-> NULL, matSetIndex |-> InvalidMatSetIndex]

Instance_getScene(n) == IF n \in InstIds THEN "scene" ELSE "otherScene"

\* ------------------------------------------ InstanceAccelerationStructure
\* InstanceAccelerationStructure::Priv constructor; as for the GAS,
\* buildOptions, memoryRequirement and compactedSize are not initialised.
InstanceAccelerationStructurePriv(flags, req, csize) ==
    [children           |-> <<>>,
     instances          |-> <<>>,
     numKeys            |-> 0,
     buildFlags         |-> flags,
     memoryRequirement  |-> req,
     compactedSize      |-> csize,
     handle             |-> 0,
     compactedHandle    |-> 0,
     tradeoff           |-> "Default",
     allowUpdate        |-> FALSE,
     allowCompaction    |-> FALSE,
     readyToBuild       |-> FALSE,
     available          |-> FALSE,
     readyToCompact     |-> FALSE,
     compactedAvailable |-> FALSE,
     finishEventCurrent |-> TRUE,
     prepared           |-> {},
     sized              |-> {}]

\* markDirty that keeps the built structure
IASPriv_markDirty_keepsAvailable(r) ==
    [r EXCEPT !.readyToBuild = FALSE, !.readyToCompact = FALSE,
              !.compactedAvailable = FALSE]

\* InstanceAccelerationStructure::Priv::markDirty
IASPriv_markDirty(r) ==
    [r EXCEPT !.readyToBuild = FALSE, !.available = FALSE,
              !.readyToCompact = FALSE, !.compactedAvailable = FALSE]

IASPriv_isReady(r) == r.available \/ r.compactedAvailable

\* InstanceAccelerationStructure::Priv::getHandle (0 stands for the throw)
IASPriv_getHandle(r) ==
    IF r.compactedAvailable THEN r.compactedHandle
    ELSE IF r.available THEN r.handle
    ELSE 0

\* ------------------------------------------------------------------- Scene
\* markSBTLayoutDirty that leaves the instance acceleration structures alone
Scene_markSBTLayoutDirty_sceneOnly ==
    /\ sbtLayoutIsUpToDate' = FALSE
    /\ UNCHANGED ias

\* Scene::Priv::markSBTLayoutDirty
Scene_markSBTLayoutDirty ==
    /\ sbtLayoutIsUpToDate' = FALSE
    /\ ias' = [i \in IASIds |-> IF i \in instASs
                                  THEN Forgotten(IASPriv_markDirty(ias[i]))
                                  ELSE ias[i]]

\* Scene::generateShaderBindingTableLayout, first loop: the record stride.
\* ok = FALSE when calcMaxRecordSizeAlign throws; size is then what
\* singleRecordSize holds at the throw.
RECURSIVE GAS_maxOverMatSets(_, _, _)
GAS_maxOverMatSets(g, matSetIdx, acc) ==
    IF matSetIdx >= GAS_getNumMaterialSets(g) THEN [ok |-> TRUE, sa |-> acc]
    ELSE LET r == GAS_calcMaxRecordSizeAlign(g, matSetIdx)
         IN  IF ~r.ok THEN [ok |-> FALSE, sa |-> acc]
             ELSE GAS_maxOverMatSets(g, matSetIdx + 1, SizeAlign_max(acc, r.sa))

RECURSIVE Scene_calcSingleRecordSize(_, _)
Scene_calcSingleRecordSize(k, size) ==
    IF k > Len(geomASs) THEN [ok |-> TRUE, size |-> size]
    ELSE LET r == GAS_maxOverMatSets(geomASs[k], 0, SizeAlignDefault)
         IN  IF ~r.ok THEN [ok |-> FALSE, size |-> size]
             ELSE Scene_calcSingleRecordSize(
                      k + 1, Max(size, SizeAlign_alignUp(r.sa).size))

\* Second loop: the (gas, matSetIdx) keys in the order they are visited.
RECURSIVE Scene_layoutKeys(_)
Scene_layoutKeys(k) ==
    IF k > Len(geomASs) THEN <<>>
    ELSE [ms \in 1..GAS_getNumMaterialSets(geomASs[k]) |-> <<geomASs[k], ms - 1>>]
         \o Scene_layoutKeys(k + 1)

\* The running cursor sbtOffset after the first n keys.
RECURSIVE Scene_cursorAfter(_, _)
Scene_cursorAfter(keys, n) ==
    IF n = 0 THEN 0
    ELSE Scene_cursorAfter(keys, n - 1) + GAS_calcNumSBTRecords(keys[n][1], keys[n][2])

Scene_calcOffsets ==
    LET keys == Scene_layoutKeys(1)
    IN  [key \in Range(keys) |->
            Scene_cursorAfter(keys, (CHOOSE p \in 1..Len(keys) : keys[p] = key) - 1)]

Scene_calcNumSBTRecords ==
    LET keys == Scene_layoutKeys(1) IN Scene_cursorAfter(keys, Len(keys))

\* The cached path without the floor of one record
Scene_memorySize_noFloor == singleRecordSize * numSBTRecords

\* *memorySize on the cached path
Scene_memorySize == singleRecordSize * Max(numSBTRecords, 1)

\* The second loop of generateShaderBindingTableLayout and what follows it
Scene_layoutGenerated ==
    /\ sbtOffsets' = Scene_calcOffsets
    /\ numSBTRecords' = Scene_calcNumSBTRecords
    /\ sbtLayoutIsUpToDate' = TRUE

Scene_generateShaderBindingTableLayout ==
    /\ edits' = "none"
    /\ IF sbtLayoutIsUpToDate
       THEN /\ call' = Called("Scene::generateShaderBindingTableLayout", 0,
                              <<>>, TRUE, Scene_memorySize)
                       @@ [recomputed |-> FALSE]
            /\ editsDone' = "none"
            /\ UNCHANGED <<sbtLayoutIsUpToDate, singleRecordSize, numSBTRecords,
                           sbtOffsets>>
       ELSE LET r == Scene_calcSingleRecordSize(1, OPTIX_SBT_RECORD_HEADER_SIZE)
            IN  /\ singleRecordSize' = r.size
                /\ IF r.ok
                   THEN /\ Scene_layoutGenerated
                        /\ editsDone' = "none"
                        /\ call' = Called("Scene::generateShaderBindingTableLayout", 0,
                                          <<>>, TRUE,
                                          singleRecordSize' * Max(numSBTRecords', 1))
                                   @@ [recomputed |-> TRUE]
                   ELSE /\ sbtOffsets' = <<>>
                        /\ UNCHANGED <<numSBTRecords, sbtLayoutIsUpToDate, editsDone>>
                        /\ call' = Called("Scene::generateShaderBindingTableLayout", 0,
                                          <<>>, FALSE, 0)
                                   @@ [recomputed |-> TRUE]
    /\ UNCHANGED <<geomASs, instASs, material, xfm, geomInst, gas, inst, ias, pipeline>>

\* ------------------------------------------------ GeometryInstance actions
nodeVars == <<material, xfm, geomInst, gas, inst, ias>>

\* GeometryInstance::setVertexBuffer / setCustomPrimitiveAABBBuffer, seen as
\* "the buffer views become valid (or not)".
GeometryInstance_setBuffers(gi, valid) ==
    /\ geomInst' = [geomInst EXCEPT ![gi].buffersValid = valid]
    /\ call' = Called("GeometryInstance::setVertexBuffer", gi, <<valid>>, TRUE, 0)
    /\ NothingNoted
    /\ UNCHANGED <<sceneVars, material, xfm, gas, inst, ias>>

\* GeometryInstance::setNumMotionSteps: the buffer view arrays are
\* reallocated, so every view is invalid afterwards.
GeometryInstance_setNumMotionSteps(gi, n) ==
    /\ geomInst' = [geomInst EXCEPT ![gi].numMotionSteps = Max(n, 1),
                                    ![gi].buffersValid = FALSE]
    /\ call' = Called("GeometryInstance::setNumMotionSteps", gi, <<n>>, TRUE, 0)
    /\ NothingNoted
    /\ UNCHANGED <<sceneVars, material, xfm, gas, inst, ias>>

\* GeometryInstance::setNumMaterials; bufValid is matIndexOffsetBuffer.isValid()
\* (the index offset size and stride are taken to be in range).
GeometryInstance_setNumMaterials(gi, numMaterials, bufValid) ==
    LET valid == numMaterials > 0 /\ ((numMaterials = 1) # bufValid)
    IN  /\ call' = Called("GeometryInstance::setNumMaterials", gi,
                          <<numMaterials, bufValid>>, valid, 0)
        /\ IF valid
           THEN geomInst' = [geomInst EXCEPT
                    ![gi].numSBTRecords = numMaterials,
                    ![gi].materials = Resize(@, numMaterials, <<NULL>>)]
           ELSE UNCHANGED geomInst
        /\ NothingNoted
        /\ UNCHANGED <<sceneVars, material, xfm, gas, inst, ias>>

\* GeometryInstance::setMaterial
GeometryInstance_setMaterial(gi, matSetIdx, matIdx, mat) ==
    LET valid == matIdx < Len(geomInst[gi].materials)
    IN  /\ call' = Called("GeometryInstance::setMaterial", gi,
                          <<matSetIdx, matIdx, mat>>, valid, 0)
        /\ IF valid
           THEN geomInst' = [geomInst EXCEPT ![gi].materials[matIdx + 1] =
                    [Resize(@, Max(Len(@), matSetIdx + 1), NULL)
                         EXCEPT ![matSetIdx + 1] = mat]]
           ELSE UNCHANGED geomInst
        /\ NothingNoted
        /\ UNCHANGED <<sceneVars, material, xfm, gas, inst, ias>>

\* ----------------------------------------------------------- GAS actions
\* addChild / removeChild that only mark the node itself dirty
GAS_dirty_nodeOnly(g, r) ==
    /\ gas' = [gas EXCEPT ![g] = Forgotten(GASPriv_markDirty(r))]
    /\ UNCHANGED <<sbtLayoutIsUpToDate, ias>>

\* GeometryAccelerationStructure::Priv::markDirty applied to the node whose
\* record, with the caller's own writes, is r.
GAS_dirty(g, r) ==
    /\ gas' = [gas EXCEPT ![g] = Forgotten(GASPriv_markDirty(r))]
    /\ Scene_markSBTLayoutDirty

layoutVars == <<singleRecordSize, numSBTRecords, sbtOffsets, geomASs, instASs>>

\* "changed" of GeometryAccelerationStructure::setConfiguration
GAS_configChanged(r, tradeoff, allowUpdate, allowCompaction, allowRandomVertexAccess) ==
    \/ r.tradeoff # tradeoff
    \/ r.allowUpdate # allowUpdate
    \/ r.allowCompaction # allowCompaction
    \/ r.allowRandomVertexAccess # allowRandomVertexAccess

GAS_setConfiguration(g, tradeoff, allowUpdate, allowCompaction, allowRandomVertexAccess) ==
    LET valid   == ~(gas[g].forCustomPrimitives /\ allowRandomVertexAccess)
        changed == GAS_configChanged(gas[g], tradeoff, allowUpdate, allowCompaction,
                                     allowRandomVertexAccess)
        r       == [gas[g] EXCEPT !.tradeoff = tradeoff,
                                  !.allowUpdate = allowUpdate,
                                  !.allowCompaction = allowCompaction,
                                  !.allowRandomVertexAccess = allowRandomVertexAccess]
    IN  /\ call' = Called("GAS::setConfiguration", g,
                          <<tradeoff, allowUpdate, allowCompaction,
                            allowRandomVertexAccess>>, valid, 0)
        /\ IF valid /\ changed
           THEN GAS_dirty(g, r) /\ Noted("other")
           ELSE UNCHANGED <<gas, sbtLayoutIsUpToDate, ias>> /\ NothingNoted
        /\ UNCHANGED <<layoutVars, material, xfm, geomInst, inst>>

GAS_setMotionOptions(g, numKeys) ==
    /\ call' = Called("GAS::setMotionOptions", g, <<numKeys>>, TRUE, 0)
    /\ GAS_dirty(g, [gas[g] EXCEPT !.numKeys = numKeys])
    /\ Noted("other")
    /\ UNCHANGED <<layoutVars, material, xfm, geomInst, inst>>

GAS_addChild_noDuplicateCheck(g, gi, preTransform) ==
    LET child == [geomInst |-> gi, preTransform |-> preTransform]
        valid == /\ gi # NULL
                 /\ GeometryInstance_getScene(gi) = "scene"
                 /\ geomInst[gi].forCustomPrimitives = gas[g].forCustomPrimitives
    IN  /\ call' = Called("GAS::addChild", g, <<gi, preTransform>>, valid, 0)
        /\ IF valid
           THEN /\ GAS_dirty(g, [gas[g] EXCEPT !.children = Append(@, child)])
                /\ Noted("child")
           ELSE UNCHANGED <<gas, sbtLayoutIsUpToDate, ias>> /\ NothingNoted
        /\ UNCHANGED <<layoutVars, material, xfm, geomInst, inst>>

GAS_addChild(g, gi, preTransform) ==
    LET child == [geomInst |-> gi, preTransform |-> preTransform]
        valid == /\ gi # NULL
                 /\ GeometryInstance_getScene(gi) = "scene"
                 /\ geomInst[gi].forCustomPrimitives = gas[g].forCustomPrimitives
                 /\ child \notin Range(gas[g].children)
    IN  /\ call' = Called("GAS::addChild", g, <<gi, preTransform>>, valid, 0)
        /\ IF valid
           THEN /\ GAS_dirty(g, [gas[g] EXCEPT !.children = Append(@, child)])
                /\ Noted("child")
           ELSE UNCHANGED <<gas, sbtLayoutIsUpToDate, ias>> /\ NothingNoted
        /\ UNCHANGED <<layoutVars, material, xfm, geomInst, inst>>

GAS_removeChild(g, gi, preTransform) ==
    LET child == [geomInst |-> gi, preTransform |-> preTransform]
        valid == /\ gi # NULL
                 /\ GeometryInstance_getScene(gi) = "scene"
                 /\ child \in Range(gas[g].children)
    IN  /\ call' = Called("GAS::removeChild", g, <<gi, preTransform>>, valid, 0)
        /\ IF valid
           THEN /\ GAS_dirty(g, [gas[g] EXCEPT !.children = EraseFirst(@, child)])
                /\ Noted("child")
           ELSE UNCHANGED <<gas, sbtLayoutIsUpToDate, ias>> /\ NothingNoted
        /\ UNCHANGED <<layoutVars, material, xfm, geomInst, inst>>

GAS_markDirty(g) ==
    /\ call' = Called("GAS::markDirty", g, <<>>, TRUE, 0)
    /\ GAS_dirty(g, gas[g])
    /\ Noted("other")
    /\ UNCHANGED <<layoutVars, material, xfm, geomInst, inst>>

GAS_setNumMaterialSets(g, numMatSets) ==
    /\ call' = Called("GAS::setNumMaterialSets", g, <<numMatSets>>, TRUE, 0)
    /\ gas' = [gas EXCEPT ![g].numRayTypesPerMaterialSet = Resize(@, numMatSets, 0)]
    /\ Scene_markSBTLayoutDirty
    /\ Noted("other")
    /\ UNCHANGED <<layoutVars, material, xfm, geomInst, inst>>

GAS_setNumRayTypes(g, matSetIdx, numRayTypes) ==
    LET valid == matSetIdx < Len(gas[g].numRayTypesPerMaterialSet)
    IN  /\ call' = Called("GAS::setNumRayTypes", g, <<matSetIdx, numRayTypes>>, valid, 0)
        /\ IF valid
           THEN /\ gas' = [gas EXCEPT
                        ![g].numRayTypesPerMaterialSet[matSetIdx + 1] = numRayTypes]
                /\ Scene_markSBTLayoutDirty
                /\ Noted("other")
           ELSE UNCHANGED <<gas, sbtLayoutIsUpToDate, ias>> /\ NothingNoted
        /\ UNCHANGED <<layoutVars, material, xfm, geomInst, inst>>

\* buildOptions.buildFlags as prepareForBuild computes it from the
\* configuration.
BuildFlagsOf(tradeoff, allowUpdate, allowCompaction, allowRandomVertexAccess) ==
    (IF tradeoff = "PreferFastTrace" THEN {"PREFER_FAST_TRACE"}
     ELSE IF tradeoff = "PreferFastBuild" THEN {"PREFER_FAST_BUILD"} ELSE {})
    \cup (IF allowUpdate THEN {"ALLOW_UPDATE"} ELSE {})
    \cup (IF allowCompaction THEN {"ALLOW_COMPACTION"} ELSE {})
    \cup (IF allowRandomVertexAccess THEN {"ALLOW_RANDOM_VERTEX_ACCESS"} ELSE {})

\* fillBuildInput / updateBuildInput of a child return without throwing
GAS_childInputOk(child) == geomInst[child.geomInst].buffersValid

\* The loop of prepareForBuild passes child: its build input is filled and
\* its motion-step count is the one of the GAS.
GAS_childPrepared(g, child) ==
    /\ GAS_childInputOk(child)
    /\ geomInst[child.geomInst].numMotionSteps = Max(gas[g].numKeys, 1)

\* GeometryAccelerationStructure::prepareForBuild; req is what
\* optixAccelComputeMemoryUsage reports.
GAS_prepareForBuild(g, req) ==
    LET valid == \A k \in 1..Len(gas[g].children) :
                     GAS_childPrepared(g, gas[g].children[k])
        r0 == [gas[g] EXCEPT !.buildInputs = Len(gas[g].children)]
        r1 == [r0 EXCEPT
                 !.buildFlags = BuildFlagsOf(r0.tradeoff, r0.allowUpdate,
                                             r0.allowCompaction,
                                             r0.allowRandomVertexAccess),
                 !.memoryRequirement = req,
                 !.readyToBuild = TRUE]
    IN  /\ call' = Called("GAS::prepareForBuild", g, <<>>, valid,
                          IF valid THEN req ELSE 0)
        /\ gas' = [gas EXCEPT ![g] = IF valid THEN [r1 EXCEPT !.prepared = {req}]
                                     ELSE r0]
        /\ NothingNoted
        /\ UNCHANGED <<sceneVars, material, xfm, geomInst, inst, ias>>

\* rebuild that does not look at the scratch buffer
GAS_rebuildValid_noScratchCheck(r, accelSize, scratchSize) ==
    /\ r.readyToBuild
    /\ accelSize >= r.memoryRequirement.outputSizeInBytes

\* The validation at the head of rebuild
GAS_rebuildValid(r, accelSize, scratchSize) ==
    /\ r.readyToBuild
    /\ accelSize >= r.memoryRequirement.outputSizeInBytes
    /\ scratchSize >= r.memoryRequirement.tempSizeInBytes

\* rebuild that leaves the compacted structure in place
GAS_rebuilt_keepsCompacted(r, newHandle) ==
    [r EXCEPT !.handle = newHandle, !.available = TRUE, !.readyToCompact = FALSE,
              !.finishEventCurrent = TRUE]

\* The writes at the tail of rebuild, newHandle being the handle
\* optixAccelBuild produced.
GAS_rebuilt(r, newHandle) ==
    [r EXCEPT !.finishEventCurrent = TRUE,
              !.handle = newHandle, !.available = TRUE, !.readyToCompact = FALSE,
              !.compactedHandle = 0, !.compactedAvailable = FALSE]

GAS_rebuild(g, accelSize, scratchSize, newHandle) ==
    LET ok == /\ GAS_rebuildValid(gas[g], accelSize, scratchSize)
              /\ \A k \in 1..Len(gas[g].children) :
                     GAS_childInputOk(gas[g].children[k])
    IN  /\ call' = Called("GAS::rebuild", g, <<accelSize, scratchSize>>, ok,
                          IF ok THEN newHandle ELSE 0)
        /\ gas' = [gas EXCEPT ![g] =
                      IF ok THEN [GAS_rebuilt(@, newHandle) EXCEPT !.sized = {}]
                      ELSE @]
        /\ NothingNoted
        /\ UNCHANGED <<sceneVars, material, xfm, geomInst, inst, ias>>

GAS_compactionEnabled(r) == "ALLOW_COMPACTION" \in r.buildFlags

GAS_updateEnabled(r) == "ALLOW_UPDATE" \in r.buildFlags

\* The validation at the head of prepareForCompact
GAS_prepareForCompactValid(r) == GAS_compactionEnabled(r) /\ r.available

\* prepareForCompact after its validation; size is the compacted size read
\* back from the device.
GAS_preparedForCompact(r, size) ==
    IF r.compactedAvailable THEN r
    ELSE [r EXCEPT !.compactedSize = size, !.readyToCompact = TRUE]

GAS_prepareForCompact(g, size) ==
    LET valid == GAS_prepareForCompactValid(gas[g])
    IN  /\ call' = Called("GAS::prepareForCompact", g, <<>>, valid,
                          IF valid /\ ~gas[g].compactedAvailable THEN size ELSE 0)
        /\ gas' = [gas EXCEPT ![g] =
                      IF ~valid THEN @
                      ELSE IF @.compactedAvailable THEN GAS_preparedForCompact(@, size)
                      ELSE [GAS_preparedForCompact(@, size) EXCEPT !.sized = {size}]]
        /\ NothingNoted
        /\ UNCHANGED <<sceneVars, material, xfm, geomInst, inst, ias>>

\* compact that does not ask for prepareForCompact
GAS_compactValid_noReadyCheck(r, bufferSize) ==
    /\ GAS_compactionEnabled(r)
    /\ r.available
    /\ bufferSize >= r.compactedSize

\* The validation at the head of compact
GAS_compactValid(r, bufferSize) ==
    /\ GAS_compactionEnabled(r)
    /\ r.readyToCompact
    /\ r.available
    /\ bufferSize >= r.compactedSize

\* compact that gives up the uncompacted structure
GAS_compacted_dropsUncompacted(r, newHandle) ==
    [r EXCEPT !.finishEventCurrent = TRUE,
              !.compactedHandle = newHandle, !.compactedAvailable = TRUE,
              !.handle = 0, !.available = FALSE]

\* The tail of compact: the event is recorded after optixAccelCompact
GAS_compacted(r, newHandle) ==
    [r EXCEPT !.finishEventCurrent = TRUE,
              !.compactedHandle = newHandle, !.compactedAvailable = TRUE]

GAS_compact(g, bufferSize, newHandle) ==
    LET valid == GAS_compactValid(gas[g], bufferSize)
    IN  /\ call' = Called("GAS::compact", g, <<bufferSize>>, valid,
                          IF valid THEN newHandle ELSE 0)
        /\ gas' = [gas EXCEPT ![g] = IF valid THEN GAS_compacted(@, newHandle) ELSE @]
        /\ NothingNoted
        /\ UNCHANGED <<sceneVars, material, xfm, geomInst, inst, ias>>

\* removeUncompacted
GAS_removedUncompacted(r) ==
    IF ~r.compactedAvailable \/ ~GAS_compactionEnabled(r) THEN r
    ELSE [r EXCEPT !.handle = 0, !.available = FALSE]

GAS_removeUncompacted(g) ==
    /\ call' = Called("GAS::removeUncompacted", g, <<>>, TRUE, 0)
    /\ gas' = [gas EXCEPT ![g] = GAS_removedUncompacted(@)]
    /\ NothingNoted
    /\ UNCHANGED <<sceneVars, material, xfm, geomInst, inst, ias>>

\* update that does not ask for a built structure
GAS_updateValid_noAvailableCheck(r, scratchSize) ==
    /\ GAS_updateEnabled(r)
    /\ scratchSize >= r.memoryRequirement.tempUpdateSizeInBytes

\* The validation at the head of update
GAS_updateValid(r, scratchSize) ==
    /\ GAS_updateEnabled(r)
    /\ (r.available \/ r.compactedAvailable)
    /\ scratchSize >= r.memoryRequirement.tempUpdateSizeInBytes

\* update that always works on the uncompacted structure
GAS_updateTarget_uncompacted(r) ==
    [buffer |-> "accelBuffer", handle |-> r.handle]

\* The buffer and handle update hands to optixAccelBuild
GAS_updateTarget(r) ==
    IF r.compactedAvailable
    THEN [buffer |-> "compactedAccelBuffer", handle |-> r.compactedHandle]
    ELSE [buffer |-> "accelBuffer", handle |-> r.handle]

\* The tail of update: optixAccelBuild is issued on the stream and update
\* returns without recording finishEvent.
GAS_updated(r) == [r EXCEPT !.finishEventCurrent = FALSE]

\* GeometryAccelerationStructure::update: the build inputs are refreshed and
\* an in-place update is issued; flags and handles are not written.
GAS_update(g, scratchSize) ==
    LET ok == /\ GAS_updateValid(gas[g], scratchSize)
              /\ \A k \in 1..Len(gas[g].children) :
                     GAS_childInputOk(gas[g].children[k])
    IN  /\ call' = Called("GAS::update", g, <<scratchSize>>, ok,
                          IF ok THEN GAS_updateTarget(gas[g]).handle ELSE 0)
                   @@ [target |-> IF ok THEN GAS_updateTarget(gas[g]).buffer
                                  ELSE "none"]
        /\ gas' = [gas EXCEPT ![g] = IF ok THEN GAS_updated(@) ELSE @]
        /\ NothingNoted
        /\ UNCHANGED <<sceneVars, material, xfm, geomInst, inst, ias>>

\* ------------------------------------------- creation, destruction, user data
\* Scene::createGeometryAccelerationStructure: the constructor registers the
\* node with Scene::Priv::addGAS, which inserts it into geomASs and does
\* nothing else.  flags is what the uninitialised buildOptions hold.
Scene_createGeometryAccelerationStructure(g, forCustomPrimitives, flags) ==
    /\ g \notin Range(geomASs)
    /\ geomASs' = Append(geomASs, g)
    /\ gas' = [gas EXCEPT ![g] = GeometryAccelerationStructurePriv(
                   forCustomPrimitives, flags, gas[g].memoryRequirement,
                   gas[g].compactedSize)]
    /\ call' = Called("Scene::createGeometryAccelerationStructure", g,
                      <<forCustomPrimitives>>, TRUE, g)
    /\ NothingNoted
    /\ UNCHANGED <<sbtLayoutIsUpToDate, singleRecordSize, numSBTRecords,
                   sbtOffsets, instASs, material, xfm, geomInst, inst, ias>>

\* GeometryAccelerationStructure::destroy: the destructor unregisters the
\* node with Scene::Priv::removeGAS, which erases it from geomASs and does
\* nothing else.
GAS_destroy(g) ==
    /\ g \in Range(geomASs)
    /\ geomASs' = EraseFirst(geomASs, g)
    /\ call' = Called("GAS::destroy", g, <<>>, TRUE, 0)
    /\ NothingNoted
    /\ UNCHANGED <<sbtLayoutIsUpToDate, singleRecordSize, numSBTRecords,
                   sbtOffsets, instASs, nodeVars>>

\* The checks at the head of the three setUserData
UserDataValid(size, alignment, maxSize) ==
    /\ size <= maxSize
    /\ alignment > 0
    /\ alignment <= OPTIX_SBT_RECORD_ALIGNMENT

\* Material::setUserData
Material_setUserData(mat, size, alignment) ==
    LET valid == UserDataValid(size, alignment, s_maxMaterialUserDataSize)
    IN  /\ call' = Called("Material::setUserData", mat, <<size, alignment>>, valid, 0)
        /\ IF valid
           THEN material' = [material EXCEPT
                    ![mat].userDataSizeAlign = SizeAlign(size, alignment)]
           ELSE UNCHANGED material
        /\ NothingNoted
        /\ UNCHANGED <<sceneVars, xfm, geomInst, gas, inst, ias>>

\* GeometryInstance::setUserData
GeometryInstance_setUserData(gi, size, alignment) ==
    LET valid == UserDataValid(size, alignment, s_maxGeometryInstanceUserDataSize)
    IN  /\ call' = Called("GeometryInstance::setUserData", gi, <<size, alignment>>,
                          valid, 0)
        /\ IF valid
           THEN geomInst' = [geomInst EXCEPT
                    ![gi].userDataSizeAlign = SizeAlign(size, alignment)]
           ELSE UNCHANGED geomInst
        /\ NothingNoted
        /\ UNCHANGED <<sceneVars, material, xfm, gas, inst, ias>>

\* GeometryAccelerationStructure::setUserData
GAS_setUserData(g, size, alignment) ==
    LET valid == UserDataValid(size, alignment, s_maxGASUserDataSize)
    IN  /\ call' = Called("GAS::setUserData", g, <<size, alignment>>, valid, 0)
        /\ IF valid
           THEN gas' = [gas EXCEPT
                    ![g].userDataSizeAlign = SizeAlign(size, alignment)]
           ELSE UNCHANGED gas
        /\ NothingNoted
        /\ UNCHANGED <<sceneVars, material, xfm, geomInst, inst, ias>>

\* ------------------------------------------------- filling the hit group SBT
\* Material::setHitGroup for a hit group of the one Pipeline of the model:
\* programs holds the ray types that have a hit group for it.
Material_setHitGroup(mat, rayType) ==
    /\ material' = [material EXCEPT ![mat].programs = @ \cup {rayType}]
    /\ call' = Called("Material::setHitGroup", mat, <<rayType>>, TRUE, 0)
    /\ NothingNoted
    /\ UNCHANGED <<sceneVars, xfm, geomInst, gas, inst, ias>>

\* Material::Priv::setRecordData: whether the hit group is there, the
\* SizeAlign after header and material user data, and the offset of the
\* latter within the record.
Material_setRecordData(mat, rayType) ==
    LET a == SizeAlign_add(SizeAlign(OPTIX_SBT_RECORD_HEADER_SIZE,
                                     OPTIX_SBT_RECORD_ALIGNMENT),
                           material[mat].userDataSizeAlign)
    IN  [ok           |-> rayType \in material[mat].programs,
         curSizeAlign |-> a.sa,
         offset       |-> a.offset]

\* One record as GeometryInstance::Priv::fillSBTRecords writes it at the
\* byte address `records': where each part starts and how long it is.  tag
\* names the GAS, material set and child the record is written for.
GeometryInstance_record(gi, mat, rIdx, matIdx, gasUserDataSizeAlign, records, tag) ==
    LET m == Material_setRecordData(mat, rIdx)
        u == SizeAlign_add(m.curSizeAlign, geomInst[gi].userDataSizeAlign)
        v == SizeAlign_add(u.sa, gasUserDataSizeAlign)
    IN  [at       |-> records,
         gas      |-> tag.gas,
         matSet   |-> tag.matSet,
         child    |-> tag.child,
         matIdx   |-> matIdx,
         rayType  |-> rIdx,
         header   |-> [offset |-> 0, size |-> OPTIX_SBT_RECORD_HEADER_SIZE],
         material |-> [offset |-> m.offset,
                       size |-> material[mat].userDataSizeAlign.size,
                       alignment |-> material[mat].userDataSizeAlign.alignment],
         geomInst |-> [offset |-> u.offset,
                       size |-> geomInst[gi].userDataSizeAlign.size,
                       alignment |-> geomInst[gi].userDataSizeAlign.alignment],
         gasData  |-> [offset |-> v.offset,
                       size |-> gasUserDataSizeAlign.size,
                       alignment |-> gasUserDataSizeAlign.alignment]]

\* `records' after the first n of a run of fill calls that returned the
\* counts: records += numRecords * singleRecordSize after each.
RECURSIVE RecordsAfter(_, _, _)
RecordsAfter(records, counts, n) ==
    IF n = 0 THEN records
    ELSE RecordsAfter(records, counts, n - 1) + counts[n] * singleRecordSize

\* The calls of a run that are made: all of them, or those up to the first
\* that throws.
CallsMade(oks) ==
    IF \A k \in 1..Len(oks) : oks[k] THEN Len(oks)
    ELSE CHOOSE k \in 1..Len(oks) : ~oks[k] /\ \A j \in 1..k - 1 : oks[j]

RECURSIVE Flatten(_)
Flatten(ss) == IF ss = <<>> THEN <<>> ELSE Head(ss) \o Flatten(Tail(ss))

\* A count that leaves out the ray types
GeometryInstance_fillCount_slotsOnly(gi, numRayTypes) ==
    Len(geomInst[gi].materials)

\* What GeometryInstance::Priv::fillSBTRecords returns
GeometryInstance_fillCount(gi, numRayTypes) ==
    Len(geomInst[gi].materials) * numRayTypes

\* GeometryInstance::Priv::fillSBTRecords.  Pass n (from 0) of the inner
\* loop body is for slot n \div numRayTypes and ray type n % numRayTypes; a
\* slot without default material throws before its first pass, a Material
\* without hit group throws in setRecordData.  The records of the passes
\* before the throw are written.
GeometryInstance_fillSBTRecords(gi, gasMatSetIdx, gasUserDataSizeAlign, numRayTypes, records, tag) ==
    LET mats      == geomInst[gi].materials
        slotOk(k) == mats[k + 1][1] # NULL
        matOf(k)  == GeometryInstance_resolveMaterial(mats[k + 1], gasMatSetIdx)
        passes    == Len(mats) * numRayTypes
        passOk(n) == /\ slotOk(n \div numRayTypes)
                     /\ Material_setRecordData(matOf(n \div numRayTypes),
                                               n % numRayTypes).ok
        done      == IF \A n \in 0..passes - 1 : passOk(n) THEN passes
                     ELSE CHOOSE n \in 0..passes - 1 :
                              ~passOk(n) /\ \A j \in 0..n - 1 : passOk(j)
    IN  [ok     |-> /\ \A k \in 0..Len(mats) - 1 : slotOk(k)
                    /\ done = passes,
         writes |-> [n \in 1..done |->
                        GeometryInstance_record(
                            gi, matOf((n - 1) \div numRayTypes), (n - 1) % numRayTypes,
                            (n - 1) \div numRayTypes, gasUserDataSizeAlign,
                            records + (n - 1) * singleRecordSize, tag)],
         ret    |-> GeometryInstance_fillCount(gi, numRayTypes)]

\* What the GeometryInstance fillSBTRecords calls of
\* GeometryAccelerationStructure::Priv::fillSBTRecords return, and their sum,
\* which it returns itself
GAS_fillCounts(g, matSetIdx) ==
    [c \in 1..Len(gas[g].children) |->
        GeometryInstance_fillCount(gas[g].children[c].geomInst,
                                   gas[g].numRayTypesPerMaterialSet[matSetIdx + 1])]

\* sumRecords += numRecords over the first n calls
RECURSIVE SumRecords(_, _)
SumRecords(counts, n) == IF n = 0 THEN 0 ELSE SumRecords(counts, n - 1) + counts[n]

GAS_fillCount(g, matSetIdx) ==
    SumRecords(GAS_fillCounts(g, matSetIdx), Len(gas[g].children))

\* GeometryAccelerationStructure::Priv::fillSBTRecords: one
\* GeometryInstance fillSBTRecords call per child, each at the address the
\* calls before it have advanced `records' to.
GAS_fillSBTRecords(g, matSetIdx, records) ==
    IF matSetIdx >= Len(gas[g].numRayTypesPerMaterialSet)
    THEN [ok |-> FALSE, writes |-> <<>>, ret |-> 0]
    ELSE LET counts == GAS_fillCounts(g, matSetIdx)
             calls  == [c \in 1..Len(gas[g].children) |->
                           GeometryInstance_fillSBTRecords(
                               gas[g].children[c].geomInst, matSetIdx,
                               gas[g].userDataSizeAlign,
                               gas[g].numRayTypesPerMaterialSet[matSetIdx + 1],
                               RecordsAfter(records, counts, c - 1),
                               [gas |-> g, matSet |-> matSetIdx, child |-> c - 1])]
             made   == CallsMade([c \in 1..Len(calls) |-> calls[c].ok])
         IN  [ok     |-> \A c \in 1..Len(calls) : calls[c].ok,
              writes |-> Flatten([c \in 1..made |-> calls[c].writes]),
              ret    |-> SumRecords(counts, Len(counts))]

\* The (GAS, material set) pairs in the order the loops of
\* Scene::Priv::setupHitGroupSBT visit them, from position k of geomASs on
RECURSIVE Scene_fillOrder(_)
Scene_fillOrder(k) ==
    IF k > Len(geomASs) THEN <<>>
    ELSE [matSetIdx \in 1..GAS_getNumMaterialSets(geomASs[k]) |->
             [gas |-> geomASs[k], matSet |-> matSetIdx - 1]]
         \o Scene_fillOrder(k + 1)

\* The loops of Scene::Priv::setupHitGroupSBT: one GAS fillSBTRecords call
\* per pair.  fills lists, per call made, the pair, the address it was given
\* and the count it returned.
Scene_fillGASs(records) ==
    LET order  == Scene_fillOrder(1)
        counts == [p \in 1..Len(order) |->
                      GAS_fillCount(order[p].gas, order[p].matSet)]
        calls  == [p \in 1..Len(order) |->
                      GAS_fillSBTRecords(order[p].gas, order[p].matSet,
                                         RecordsAfter(records, counts, p - 1))]
        made   == CallsMade([p \in 1..Len(calls) |-> calls[p].ok])
    IN  [ok     |-> \A p \in 1..Len(calls) : calls[p].ok,
         writes |-> Flatten([p \in 1..made |-> calls[p].writes]),
         fills  |-> [p \in 1..made |->
                        [gas        |-> order[p].gas,
                         matSet     |-> order[p].matSet,
                         records    |-> RecordsAfter(records, counts, p - 1),
                         numRecords |-> calls[p].ret]]]

\* Scene::Priv::setupHitGroupSBT (called by
\* Pipeline::Priv::setupShaderBindingTable); enough is
\* sbt.sizeInBytes() >= singleRecordSize * numSBTRecords.  The call changes
\* the host memory and the device buffer only; what it wrote is kept in the
\* record of the call.
Scene_setupHitGroupSBT(enough) ==
    LET r == IF enough THEN Scene_fillGASs(0)
             ELSE [ok |-> FALSE, writes |-> <<>>, fills |-> <<>>]
    IN  /\ call' = Called("Scene::setupHitGroupSBT", 0, <<enough>>, r.ok,
                          [writes |-> r.writes, fills |-> r.fills])
        /\ NothingNoted
        /\ UNCHANGED <<sceneVars, nodeVars>>

\* --------------------------------------------------------------- Transform
\* The float values that occur: finite ones (here whole numbers, which a
\* float holds exactly), the infinities (v is the sign) and NaN.
F(n) == [k |-> "fin", v |-> n]

Inf(sign) == [k |-> "inf", v |-> sign]

NaN == [k |-> "nan", v |-> 0]

Sign(n) == IF n > 0 THEN 1 ELSE IF n < 0 THEN -1 ELSE 0

\* 1.0f / det for a whole number det of magnitude at most 1: IEEE division
\* by zero gives an infinity.
FloatReciprocal(det) == IF det = 0 THEN Inf(1) ELSE F(det)

\* x * n for a float x and a whole number n (IEEE: inf * 0 is NaN)
FloatTimes(x, n) ==
    IF x.k = "nan" THEN NaN
    ELSE IF x.k = "inf" THEN (IF n = 0 THEN NaN ELSE Inf(x.v * Sign(n)))
    ELSE F(x.v * n)

\* x != 0.0f
FloatNonZero(x) == ~(x.k = "fin" /\ x.v = 0)

\* The 3x4 row-major identity
IdentityMatrix == <<1, 0, 0, 0,  0, 1, 0, 0,  0, 0, 1, 0>>

\* The 3x4 matrix setConfiguration writes: 1.0f at the indices 0, 4 and 8
ConfiguredMatrix == <<1, 0, 0, 0,  1, 0, 0, 0,  1, 0, 0, 0>>

AsFloats(matrix) == [k \in 1..Len(matrix) |-> F(matrix[k])]

\* The OptixSRTData setConfiguration writes; a, b, c and the pivot are 0.0f
\* there and in every later write and are left out
ConfiguredSRT ==
    [scale       |-> AsFloats(<<1, 1, 1>>),
     orientation |-> AsFloats(<<0, 0, 0, 1>>),
     translation |-> AsFloats(<<0, 0, 0>>)]

\* Transform::Priv constructor; data is <<>> while the pointer is null.
\* pastEnd is history: a motion key was written behind the end of data.
TransformPriv ==
    [type      |-> "Invalid",
     childType |-> "Invalid",
     child     |-> NULL,
     data      |-> <<>>,
     numKeys   |-> 2,
     handle    |-> 0,
     available |-> FALSE,
     pastEnd   |-> FALSE]

\* getDescendantGAS that looks at the Transform's own child only
Transform_getDescendantGAS_directChild(t) ==
    IF xfm[t].childType = "GAS" THEN xfm[t].child ELSE NULL

\* Stands for a call that does not return
DoesNotReturn == -2

\* Transform::Priv::getDescendantGAS on t, called at recursion depth `depth';
\* NULL is nullptr.  A child of type Invalid reaches the assertion, which the
\* release build skips.  The Scene has NumTransform Transforms, so a walk
\* that is more than NumTransform calls deep has come to the same Transform
\* twice and goes round for ever: the call recurses without end.
RECURSIVE Transform_descend(_, _)
Transform_descend(t, depth) ==
    IF depth > NumTransform THEN DoesNotReturn
    ELSE IF xfm[t].childType = "GAS" THEN xfm[t].child
    ELSE IF xfm[t].childType = "IAS" THEN NULL
    ELSE IF xfm[t].childType = "Transform"
    THEN Transform_descend(xfm[t].child, depth + 1)
    ELSE NULL

Transform_getDescendantGAS(t) == Transform_descend(t, 1)

\* Transform::Priv::markDirty
TransformPriv_markDirty(r) == [r EXCEPT !.available = FALSE]

TransformPriv_isReady(r) == r.available

\* Transform::Priv::getHandle (0 stands for the throw)
TransformPriv_getHandle(r) == IF r.available THEN r.handle ELSE 0

\* Transform::setConfiguration: a fresh data block for the type, every
\* matrix in it as ConfiguredMatrix and every SRT key as ConfiguredSRT.  The
\* key count is raised to 2 and stored for the two motion types only.
Transform_setConfiguration(t, type, numKeys) ==
    LET n == Max(numKeys, 2)
    IN  /\ xfm' = [xfm EXCEPT ![t] = TransformPriv_markDirty(
                       [@ EXCEPT
                          !.type = type,
                          !.numKeys = IF type \in {"MatrixMotion", "SRTMotion"}
                                      THEN n ELSE @,
                          !.data =
                              IF type = "MatrixMotion"
                              THEN [keys |-> [k \in 1..n |-> AsFloats(ConfiguredMatrix)]]
                              ELSE IF type = "SRTMotion"
                              THEN [keys |-> [k \in 1..n |-> ConfiguredSRT]]
                              ELSE IF type = "Static"
                              THEN [transform    |-> AsFloats(ConfiguredMatrix),
                                    invTransform |-> AsFloats(ConfiguredMatrix)]
                              ELSE @])]
        /\ call' = Called("Transform::setConfiguration", t, <<type, numKeys>>, TRUE, 0)
        /\ NothingNoted
        /\ UNCHANGED <<sceneVars, material, geomInst, gas, inst, ias>>

\* Transform::setMotionOptions (the times and flags are not kept)
Transform_setMotionOptions(t) ==
    /\ xfm' = [xfm EXCEPT ![t] = TransformPriv_markDirty(@)]
    /\ call' = Called("Transform::setMotionOptions", t, <<>>, TRUE, 0)
    /\ NothingNoted
    /\ UNCHANGED <<sceneVars, material, geomInst, gas, inst, ias>>

\* The key index passes the check of set*MotionKey
Transform_keyIndexValid(r, keyIdx) == keyIdx <= r.numKeys

\* The tail of setMatrixMotionKey / setSRTMotionKey for a call that passed
\* the checks: key keyIdx of the data block becomes `key'.  The block holds
\* numKeys keys, so for keyIdx = numKeys the write lands behind the end of
\* the allocation; what the build does then is not defined: the call
\* returns with foreign memory overwritten, or the process ends (crash).
Transform_keyWritten(op, t, keyIdx, args, key, crash) ==
    IF keyIdx < xfm[t].numKeys
    THEN /\ xfm' = [xfm EXCEPT ![t] = TransformPriv_markDirty(
                        [@ EXCEPT !.data.keys[keyIdx + 1] = key])]
         /\ call' = Called(op, t, args, TRUE, 0)
    ELSE IF crash
    THEN /\ UNCHANGED xfm
         /\ call' = Called(op, t, args, FALSE, DoesNotReturn)
    ELSE /\ xfm' = [xfm EXCEPT ![t] = TransformPriv_markDirty(
                        [@ EXCEPT !.pastEnd = TRUE])]
         /\ call' = Called(op, t, args, TRUE, 0)

\* Transform::setMatrixMotionKey
Transform_setMatrixMotionKey(t, keyIdx, matrix) ==
    /\ IF xfm[t].type = "MatrixMotion" /\ Transform_keyIndexValid(xfm[t], keyIdx)
       THEN \E crash \in BOOLEAN :
                Transform_keyWritten("Transform::setMatrixMotionKey", t, keyIdx,
                                     <<keyIdx, matrix>>, AsFloats(matrix), crash)
       ELSE /\ call' = Called("Transform::setMatrixMotionKey", t, <<>>, FALSE, 0)
            /\ UNCHANGED xfm
    /\ NothingNoted
    /\ UNCHANGED <<sceneVars, material, geomInst, gas, inst, ias>>

\* Transform::setSRTMotionKey
Transform_setSRTMotionKey(t, keyIdx, scale, orientation, translation) ==
    /\ IF xfm[t].type = "SRTMotion" /\ Transform_keyIndexValid(xfm[t], keyIdx)
       THEN \E crash \in BOOLEAN :
                Transform_keyWritten("Transform::setSRTMotionKey", t, keyIdx,
                                     <<keyIdx, scale, orientation, translation>>,
                                     [scale       |-> AsFloats(scale),
                                      orientation |-> AsFloats(orientation),
                                      translation |-> AsFloats(translation)],
                                     crash)
       ELSE /\ call' = Called("Transform::setSRTMotionKey", t, <<>>, FALSE, 0)
            /\ UNCHANGED xfm
    /\ NothingNoted
    /\ UNCHANGED <<sceneVars, material, geomInst, gas, inst, ias>>

\* The determinant of the 3x3 block as setStaticTransform writes it out;
\* matrix[k] of the code is m[k + 1].
Transform_determinant(m) ==
    m[1] * m[6] * m[11] + m[2] * m[7] * m[9] + m[3] * m[5] * m[10]
    - m[3] * m[6] * m[9] - m[2] * m[5] * m[11] - m[1] * m[7] * m[10]

\* invMat of setStaticTransform
Transform_inverse(m, invDet) ==
    << FloatTimes(invDet, m[6] * m[11] - m[7] * m[10]),
       FloatTimes(invDet, m[3] * m[10] - m[2] * m[11]),
       FloatTimes(invDet, m[2] * m[7] - m[3] * m[6]),
       F(-m[4]),
       FloatTimes(invDet, m[7] * m[9] - m[5] * m[11]),
       FloatTimes(invDet, m[1] * m[11] - m[3] * m[9]),
       FloatTimes(invDet, m[3] * m[5] - m[1] * m[7]),
       F(-m[8]),
       FloatTimes(invDet, m[5] * m[10] - m[6] * m[9]),
       FloatTimes(invDet, m[2] * m[9] - m[1] * m[10]),
       FloatTimes(invDet, m[1] * m[6] - m[2] * m[5]),
       F(-m[12]) >>

\* Transform::setStaticTransform
Transform_setStaticTransform(t, matrix) ==
    LET invDet == FloatReciprocal(Transform_determinant(matrix))
        valid  == xfm[t].type = "Static" /\ FloatNonZero(invDet)
    IN  /\ call' = Called("Transform::setStaticTransform", t, <<matrix>>, valid, 0)
        /\ xfm' = [xfm EXCEPT ![t] =
                      IF ~valid THEN @
                      ELSE TransformPriv_markDirty(
                               [@ EXCEPT !.data =
                                    [transform    |-> AsFloats(matrix),
                                     invTransform |-> Transform_inverse(matrix, invDet)]])]
        /\ NothingNoted
        /\ UNCHANGED <<sceneVars, material, geomInst, gas, inst, ias>>

\* Transform::setChild(GeometryAccelerationStructure)
Transform_setChildGAS(t, g) ==
    /\ xfm' = [xfm EXCEPT ![t] = TransformPriv_markDirty(
                   [@ EXCEPT !.childType = "GAS", !.child = g])]
    /\ call' = Called("Transform::setChild(GAS)", t, <<g>>, TRUE, 0)
    /\ NothingNoted
    /\ UNCHANGED <<sceneVars, material, geomInst, gas, inst, ias>>

\* Transform::setChild(InstanceAccelerationStructure)
Transform_setChildIAS(t, i) ==
    /\ xfm' = [xfm EXCEPT ![t] = TransformPriv_markDirty(
                   [@ EXCEPT !.childType = "IAS", !.child = i])]
    /\ call' = Called("Transform::setChild(IAS)", t, <<i>>, TRUE, 0)
    /\ NothingNoted
    /\ UNCHANGED <<sceneVars, material, geomInst, gas, inst, ias>>

\* The transforms met when following child links from t, t included, as
\* long as the links do not come back
RECURSIVE Transform_chain(_, _)
Transform_chain(t, seen) ==
    IF t \in seen THEN seen
    ELSE IF xfm[t].childType = "Transform"
    THEN Transform_chain(xfm[t].child, seen \cup {t})
    ELSE seen \cup {t}

\* The child's chain does not lead back to t
Transform_keepsChainsFinite(t, c) == t \notin Transform_chain(c, {})

\* Transform::setChild(Transform).  The code accepts any child, also one
\* whose chain leads back to t.
Transform_setChildTransform(t, c) ==
    /\ xfm' = [xfm EXCEPT ![t] = TransformPriv_markDirty(
                   [@ EXCEPT !.childType = "Transform", !.child = c])]
    /\ call' = Called("Transform::setChild(Transform)", t, <<c>>, TRUE, 0)
    /\ NothingNoted
    /\ UNCHANGED <<sceneVars, material, geomInst, gas, inst, ias>>

\* rebuild that takes the handle of any child
Transform_childReady_always(r) == TRUE

\* The child's getHandle() in Transform::rebuild does not throw
Transform_childReady(r) ==
    IF r.childType = "GAS" THEN GASPriv_isReady(gas[r.child])
    ELSE IF r.childType = "IAS" THEN IASPriv_isReady(ias[r.child])
    ELSE IF r.childType = "Transform" THEN TransformPriv_isReady(xfm[r.child])
    ELSE TRUE

\* Transform::rebuild; enough is "trDeviceMem.sizeInBytes() >= dataSize"
Transform_rebuild(t, enough, newHandle) ==
    LET valid == /\ xfm[t].type # "Invalid"
                 /\ enough
                 /\ xfm[t].childType # "Invalid"
                 /\ Transform_childReady(xfm[t])
    IN  /\ call' = Called("Transform::rebuild", t, <<enough>>, valid,
                          IF valid THEN newHandle ELSE 0)
        /\ xfm' = [xfm EXCEPT ![t] =
                      IF valid THEN [@ EXCEPT !.handle = newHandle, !.available = TRUE]
                      ELSE @]
        /\ NothingNoted
        /\ UNCHANGED <<sceneVars, material, geomInst, gas, inst, ias>>

\* ------------------------------------------------------- Instance actions
Instance_setChildGAS(n, g, matSetIdx) ==
    /\ inst' = [inst EXCEPT ![n] = [type |-> "GAS", child |-> g,
                                    matSetIndex |-> matSetIdx]]
    /\ call' = Called("Instance::setChild(GAS)", n, <<g, matSetIdx>>, TRUE, 0)
    /\ NothingNoted
    /\ UNCHANGED <<sceneVars, material, xfm, geomInst, gas, ias>>

Instance_setChildIAS(n, i) ==
    /\ inst' = [inst EXCEPT ![n] = [type |-> "IAS", child |-> i, matSetIndex |-> 0]]
    /\ call' = Called("Instance::setChild(IAS)", n, <<i>>, TRUE, 0)
    /\ NothingNoted
    /\ UNCHANGED <<sceneVars, material, xfm, geomInst, gas, ias>>

Instance_setChildTransform(n, t, matSetIdx) ==
    /\ inst' = [inst EXCEPT ![n] = [type |-> "Transform", child |-> t,
                                    matSetIndex |-> matSetIdx]]
    /\ call' = Called("Instance::setChild(Transform)", n, <<t, matSetIdx>>, TRUE, 0)
    /\ NothingNoted
    /\ UNCHANGED <<sceneVars, material, xfm, geomInst, gas, ias>>

Instance_setMaterialSetIndex(n, matSetIdx) ==
    /\ inst' = [inst EXCEPT ![n].matSetIndex = matSetIdx]
    /\ call' = Called("Instance::setMaterialSetIndex", n, <<matSetIdx>>, TRUE, 0)
    /\ NothingNoted
    /\ UNCHANGED <<sceneVars, material, xfm, geomInst, gas, ias>>

\* Scene::Priv::getSBTOffset does not throw for the key
Scene_hasSBTOffset(g, matSetIdx) == <<g, matSetIdx>> \in DOMAIN sbtOffsets

\* Instance::Priv::fillInstance / updateInstance: whether it returns, and the
\* sbtOffset it writes.  For a child of type Invalid the release build skips
\* the assertion: fillInstance leaves the zeroed record, updateInstance
\* leaves the record's sbtOffset as it is (old).
Instance_resolve(n, old) ==
    LET r == inst[n]
    IN  IF r.type = "GAS"
        THEN IF GASPriv_isReady(gas[r.child]) /\ Scene_hasSBTOffset(r.child, r.matSetIndex)
             THEN [ok |-> TRUE, sbtOffset |-> sbtOffsets[<<r.child, r.matSetIndex>>]]
             ELSE [ok |-> FALSE, sbtOffset |-> old]
        ELSE IF r.type = "IAS"
        THEN [ok |-> IASPriv_isReady(ias[r.child]), sbtOffset |-> 0]
        ELSE IF r.type = "Transform"
        THEN LET desGas == Transform_getDescendantGAS(r.child)
             IN  IF ~TransformPriv_isReady(xfm[r.child])
                 THEN [ok |-> FALSE, sbtOffset |-> old]
                 ELSE IF desGas = NULL
                 THEN [ok |-> TRUE, sbtOffset |-> 0]
                 ELSE IF Scene_hasSBTOffset(desGas, r.matSetIndex)
                 THEN [ok |-> TRUE, sbtOffset |-> sbtOffsets[<<desGas, r.matSetIndex>>]]
                 ELSE [ok |-> FALSE, sbtOffset |-> old]
        ELSE [ok |-> TRUE, sbtOffset |-> old]

\* The loop "for child : children  fill/updateInstance(&instances[childIdx++])"
\* from child k on: the instance array when the loop ends or throws.
RECURSIVE IAS_walkChildren(_, _, _, _)
IAS_walkChildren(children, instances, k, fresh) ==
    IF k > Len(children) THEN [ok |-> TRUE, instances |-> instances]
    ELSE LET r == Instance_resolve(children[k], IF fresh THEN 0 ELSE instances[k])
         IN  IF ~r.ok THEN [ok |-> FALSE, instances |-> instances]
             ELSE IAS_walkChildren(children,
                                   [instances EXCEPT ![k] = r.sbtOffset],
                                   k + 1, fresh)

\* ----------------------------------------------------------- IAS actions
IAS_configChanged(r, tradeoff, allowUpdate, allowCompaction) ==
    \/ r.tradeoff # tradeoff
    \/ r.allowUpdate # allowUpdate
    \/ r.allowCompaction # allowCompaction

IAS_setConfiguration(i, tradeoff, allowUpdate, allowCompaction) ==
    LET changed == IAS_configChanged(ias[i], tradeoff, allowUpdate, allowCompaction)
        r       == [ias[i] EXCEPT !.tradeoff = tradeoff,
                                  !.allowUpdate = allowUpdate,
                                  !.allowCompaction = allowCompaction]
    IN  /\ call' = Called("IAS::setConfiguration", i,
                          <<tradeoff, allowUpdate, allowCompaction>>, TRUE, 0)
        /\ ias' = [ias EXCEPT ![i] = IF changed THEN Forgotten(IASPriv_markDirty(r))
                                     ELSE r]
        /\ NothingNoted
        /\ UNCHANGED <<sceneVars, material, xfm, geomInst, gas, inst>>

IAS_setMotionOptions(i, numKeys) ==
    /\ call' = Called("IAS::setMotionOptions", i, <<numKeys>>, TRUE, 0)
    /\ ias' = [ias EXCEPT ![i] =
                  Forgotten(IASPriv_markDirty([@ EXCEPT !.numKeys = numKeys]))]
    /\ NothingNoted
    /\ UNCHANGED <<sceneVars, material, xfm, geomInst, gas, inst>>

IAS_addChild(i, n) ==
    LET valid == /\ n # NULL
                 /\ Instance_getScene(n) = "scene"
                 /\ n \notin Range(ias[i].children)
    IN  /\ call' = Called("IAS::addChild", i, <<n>>, valid, 0)
        /\ ias' = [ias EXCEPT ![i] =
                      IF valid
                      THEN Forgotten(IASPriv_markDirty([@ EXCEPT !.children = Append(@, n)]))
                      ELSE @]
        /\ NothingNoted
        /\ UNCHANGED <<sceneVars, material, xfm, geomInst, gas, inst>>

IAS_removeChild(i, n) ==
    LET valid == /\ n # NULL
                 /\ Instance_getScene(n) = "scene"
                 /\ n \in Range(ias[i].children)
    IN  /\ call' = Called("IAS::removeChild", i, <<n>>, valid, 0)
        /\ ias' = [ias EXCEPT ![i] =
                      IF valid
                      THEN Forgotten(IASPriv_markDirty(
                               [@ EXCEPT !.children = EraseFirst(@, n)]))
                      ELSE @]
        /\ NothingNoted
        /\ UNCHANGED <<sceneVars, material, xfm, geomInst, gas, inst>>

IAS_markDirty(i) ==
    /\ call' = Called("IAS::markDirty", i, <<>>, TRUE, 0)
    /\ ias' = [ias EXCEPT ![i] = Forgotten(IASPriv_markDirty(@))]
    /\ NothingNoted
    /\ UNCHANGED <<sceneVars, material, xfm, geomInst, gas, inst>>

\* A Scene that always reports its layout as generated
Scene_sbtLayoutGenerationDone_always == TRUE

\* Scene::Priv::sbtLayoutGenerationDone
Scene_sbtLayoutGenerationDone == sbtLayoutIsUpToDate

\* InstanceAccelerationStructure::prepareForBuild
IAS_prepareForBuild(i, req) ==
    LET w  == IAS_walkChildren(ias[i].children,
                               Resize(ias[i].instances, Len(ias[i].children), 0),
                               1, TRUE)
        ok == Scene_sbtLayoutGenerationDone /\ w.ok
        r0 == [ias[i] EXCEPT !.instances = w.instances]
        r1 == [r0 EXCEPT
                 !.buildFlags = BuildFlagsOf(r0.tradeoff, r0.allowUpdate,
                                             r0.allowCompaction, FALSE),
                 !.memoryRequirement = req,
                 !.readyToBuild = TRUE]
    IN  /\ call' = Called("IAS::prepareForBuild", i, <<>>, ok, IF ok THEN req ELSE 0)
        /\ ias' = [ias EXCEPT ![i] = IF ~Scene_sbtLayoutGenerationDone THEN @
                                     ELSE IF w.ok THEN [r1 EXCEPT !.prepared = {req}]
                                     ELSE r0]
        /\ NothingNoted
        /\ UNCHANGED <<sceneVars, material, xfm, geomInst, gas, inst>>

IAS_rebuildValid(r, instanceCapacity, accelSize, scratchSize) ==
    /\ r.readyToBuild
    /\ accelSize >= r.memoryRequirement.outputSizeInBytes
    /\ scratchSize >= r.memoryRequirement.tempSizeInBytes
    /\ instanceCapacity >= Len(r.instances)

\* rebuild that leaves readyToCompact as it is
IAS_rebuilt_keepsReadyToCompact(r, newHandle) ==
    [r EXCEPT !.finishEventCurrent = TRUE,
              !.handle = newHandle, !.available = TRUE,
              !.compactedHandle = 0, !.compactedAvailable = FALSE]

\* The tail of rebuild
IAS_rebuilt(r, newHandle) ==
    [r EXCEPT !.finishEventCurrent = TRUE,
              !.handle = newHandle, !.available = TRUE, !.readyToCompact = FALSE,
              !.compactedHandle = 0, !.compactedAvailable = FALSE]

\* rebuild that builds from the instance array as prepareForBuild left it
IAS_rebuild_noUpdateInstance(i, instanceCapacity, accelSize, scratchSize, newHandle) ==
    LET ok == IAS_rebuildValid(ias[i], instanceCapacity, accelSize, scratchSize)
    IN  /\ call' = Called("IAS::rebuild", i,
                          <<instanceCapacity, accelSize, scratchSize>>, ok,
                          IF ok THEN newHandle ELSE 0)
        /\ ias' = [ias EXCEPT ![i] =
                      IF ok THEN [IAS_rebuilt(@, newHandle) EXCEPT !.sized = {}]
                      ELSE @]
        /\ NothingNoted
        /\ UNCHANGED <<sceneVars, material, xfm, geomInst, gas, inst>>

\* InstanceAccelerationStructure::rebuild; instanceCapacity is the number of
\* OptixInstance records the instance buffer holds.
IAS_rebuild(i, instanceCapacity, accelSize, scratchSize, newHandle) ==
    LET valid == IAS_rebuildValid(ias[i], instanceCapacity, accelSize, scratchSize)
        w     == IAS_walkChildren(ias[i].children, ias[i].instances, 1, FALSE)
        ok    == valid /\ w.ok
    IN  /\ call' = Called("IAS::rebuild", i,
                          <<instanceCapacity, accelSize, scratchSize>>, ok,
                          IF ok THEN newHandle ELSE 0)
        /\ ias' = [ias EXCEPT ![i] =
                      IF ~valid THEN @
                      ELSE IF w.ok
                      THEN [IAS_rebuilt([@ EXCEPT !.instances = w.instances], newHandle)
                                EXCEPT !.sized = {}]
                      ELSE [@ EXCEPT !.instances = w.instances]]
        /\ NothingNoted
        /\ UNCHANGED <<sceneVars, material, xfm, geomInst, gas, inst>>

IAS_compactionEnabled(r) == "ALLOW_COMPACTION" \in r.buildFlags

IAS_updateEnabled(r) == "ALLOW_UPDATE" \in r.buildFlags

\* prepareForCompact that does not ask for the uncompacted structure
IAS_prepareForCompactValid_noAvailableCheck(r) == IAS_compactionEnabled(r)

IAS_prepareForCompactValid(r) == IAS_compactionEnabled(r) /\ r.available

IAS_preparedForCompact(r, size) ==
    IF r.compactedAvailable THEN r
    ELSE [r EXCEPT !.compactedSize = size, !.readyToCompact = TRUE]

IAS_prepareForCompact(i, size) ==
    LET valid == IAS_prepareForCompactValid(ias[i])
    IN  /\ call' = Called("IAS::prepareForCompact", i, <<>>, valid,
                          IF valid /\ ~ias[i].compactedAvailable THEN size ELSE 0)
        /\ ias' = [ias EXCEPT ![i] =
                      IF ~valid THEN @
                      ELSE IF @.compactedAvailable THEN IAS_preparedForCompact(@, size)
                      ELSE [IAS_preparedForCompact(@, size) EXCEPT !.sized = {size}]]
        /\ NothingNoted
        /\ UNCHANGED <<sceneVars, material, xfm, geomInst, gas, inst>>

IAS_compactValid(r, bufferSize) ==
    /\ IAS_compactionEnabled(r)
    /\ r.readyToCompact
    /\ r.available
    /\ bufferSize >= r.compactedSize

IAS_compacted(r, newHandle) ==
    [r EXCEPT !.finishEventCurrent = TRUE,
              !.compactedHandle = newHandle, !.compactedAvailable = TRUE]

IAS_compact(i, bufferSize, newHandle) ==
    LET valid == IAS_compactValid(ias[i], bufferSize)
    IN  /\ call' = Called("IAS::compact", i, <<bufferSize>>, valid,
                          IF valid THEN newHandle ELSE 0)
        /\ ias' = [ias EXCEPT ![i] = IF valid THEN IAS_compacted(@, newHandle) ELSE @]
        /\ NothingNoted
        /\ UNCHANGED <<sceneVars, material, xfm, geomInst, gas, inst>>

\* removeUncompacted that does not ask for the compacted structure
IAS_removedUncompacted_unconditional(r) ==
    [r EXCEPT !.handle = 0, !.available = FALSE]

IAS_removedUncompacted(r) ==
    IF ~r.compactedAvailable \/ ~IAS_compactionEnabled(r) THEN r
    ELSE [r EXCEPT !.handle = 0, !.available = FALSE]

IAS_removeUncompacted(i) ==
    /\ call' = Called("IAS::removeUncompacted", i, <<>>, TRUE, 0)
    /\ ias' = [ias EXCEPT ![i] = IAS_removedUncompacted(@)]
    /\ NothingNoted
    /\ UNCHANGED <<sceneVars, material, xfm, geomInst, gas, inst>>

IAS_updateValid(r, scratchSize) ==
    /\ IAS_updateEnabled(r)
    /\ (r.available \/ r.compactedAvailable)
    /\ scratchSize >= r.memoryRequirement.tempUpdateSizeInBytes

IAS_updateTarget(r) ==
    IF r.compactedAvailable
    THEN [buffer |-> "compactedAccelBuffer", handle |-> r.compactedHandle]
    ELSE [buffer |-> "accelBuffer", handle |-> r.handle]

\* The tail of update: no finishEvent is recorded
IAS_updated(r) == [r EXCEPT !.finishEventCurrent = FALSE]

\* InstanceAccelerationStructure::update: the instance records are
\* refreshed (up to a child that is not ready) and an in-place update issued.
IAS_update(i, scratchSize) ==
    LET valid == IAS_updateValid(ias[i], scratchSize)
        w     == IAS_walkChildren(ias[i].children, ias[i].instances, 1, FALSE)
        ok    == valid /\ w.ok
    IN  /\ call' = Called("IAS::update", i, <<scratchSize>>, ok,
                          IF ok THEN IAS_updateTarget(ias[i]).handle ELSE 0)
                   @@ [target |-> IF ok THEN IAS_updateTarget(ias[i]).buffer
                                  ELSE "none"]
        /\ ias' = [ias EXCEPT ![i] =
                      IF ~valid THEN @
                      ELSE IF w.ok THEN IAS_updated([@ EXCEPT !.instances = w.instances])
                      ELSE [@ EXCEPT !.instances = w.instances]]
        /\ NothingNoted
        /\ UNCHANGED <<sceneVars, material, xfm, geomInst, gas, inst>>

\* ---------------------------------------------------------------- Pipeline
\* A BufferView: whether it refers to a buffer, and the buffer's size
BufferView(valid, bytes) == [valid |-> valid, bytes |-> bytes]

\* Scene::Priv::isReady without the loop over the Transforms
Scene_isReady_noTransforms ==
    [ready       |-> /\ \A k \in 1..Len(geomASs) : GASPriv_isReady(gas[geomASs[k]])
                     /\ \A i \in instASs : IASPriv_isReady(ias[i])
                     /\ sbtLayoutIsUpToDate,
     hasMotionAS |-> \E i \in instASs : ias[i].numKeys >= 2]

\* Scene::Priv::isReady; hasMotionAS is what the loops have gathered when
\* they ran to the end (a GAS never has motion, an IAS has with two keys or
\* more), and is read by the caller only then.
Scene_isReady ==
    [ready       |-> /\ \A k \in 1..Len(geomASs) : GASPriv_isReady(gas[geomASs[k]])
                     /\ \A t \in DOMAIN xfm : TransformPriv_isReady(xfm[t])
                     /\ \A i \in instASs : IASPriv_isReady(ias[i])
                     /\ sbtLayoutIsUpToDate,
     hasMotionAS |-> \E i \in instASs : ias[i].numKeys >= 2]

\* Pipeline::Priv constructor.  sbtSize is not initialised, and
\* pipelineCompileOptions (usesMotionBlur) is what setPipelineOptions wrote.
\* hitGroupRecords is what the device buffer of hitGroupSbt holds.
PipelinePriv(sbtSize, usesMotionBlur) ==
    [scene                 |-> "nullptr",
     numMissRayTypes       |-> 0,
     numCallablePrograms   |-> 0,
     sbtSize               |-> sbtSize,
     rayGenProgram         |-> FALSE,
     sbt                   |-> BufferView(FALSE, 0),
     hitGroupSbt           |-> BufferView(FALSE, 0),
     hitGroupRecords       |-> <<>>,
     sbtParams             |-> [hitgroupRecordStrideInBytes |-> 0,
                                hitgroupRecordCount |-> 0],
     usesMotionBlur        |-> usesMotionBlur,
     sbtLayoutIsUpToDate   |-> FALSE,
     sbtIsUpToDate         |-> FALSE,
     hitGroupSbtIsUpToDate |-> FALSE]

\* The frame of a Pipeline call: the Scene is read, never written
PipelineOnly ==
    /\ UNCHANGED <<sceneVars, nodeVars, edits, editsDone>>

\* Pipeline::generateShaderBindingTableLayout
Pipeline_generateShaderBindingTableLayout ==
    LET size == OPTIX_SBT_RECORD_HEADER_SIZE + OPTIX_SBT_RECORD_HEADER_SIZE
                + OPTIX_SBT_RECORD_HEADER_SIZE * pipeline.numMissRayTypes
                + OPTIX_SBT_RECORD_HEADER_SIZE * pipeline.numCallablePrograms
    IN  /\ pipeline' = IF pipeline.sbtLayoutIsUpToDate THEN pipeline
                       ELSE [pipeline EXCEPT !.sbtSize = size,
                                             !.sbtLayoutIsUpToDate = TRUE]
        /\ call' = Called("Pipeline::generateShaderBindingTableLayout", 0, <<>>,
                          TRUE, pipeline'.sbtSize)
        /\ PipelineOnly

\* Pipeline::setRayGenerationProgram with a program group of this Pipeline
Pipeline_setRayGenerationProgram ==
    /\ pipeline' = [pipeline EXCEPT !.rayGenProgram = TRUE, !.sbtIsUpToDate = FALSE]
    /\ call' = Called("Pipeline::setRayGenerationProgram", 0, <<>>, TRUE, 0)
    /\ PipelineOnly

\* Pipeline::setShaderBindingTable; hostMem is whether the pointer is set
Pipeline_setShaderBindingTable(shaderBindingTable, hostMem) ==
    LET valid == shaderBindingTable.bytes >= pipeline.sbtSize /\ hostMem
    IN  /\ pipeline' = IF valid
                       THEN [pipeline EXCEPT !.sbt = shaderBindingTable,
                                             !.sbtIsUpToDate = FALSE]
                       ELSE pipeline
        /\ call' = Called("Pipeline::setShaderBindingTable", 0,
                          <<shaderBindingTable, hostMem>>, valid, 0)
        /\ PipelineOnly

\* Pipeline::setScene
Pipeline_setScene(scene) ==
    /\ pipeline' = [pipeline EXCEPT !.scene = scene,
                                    !.hitGroupSbt = BufferView(FALSE, 0),
                                    !.hitGroupSbtIsUpToDate = FALSE]
    /\ call' = Called("Pipeline::setScene", 0, <<scene>>, TRUE, 0)
    /\ PipelineOnly

\* Pipeline::setHitGroupShaderBindingTable.  The buffer is the caller's: the
\* model takes it to hold no records when it is handed over.
Pipeline_setHitGroupShaderBindingTable(shaderBindingTable, hostMem) ==
    /\ pipeline' = IF hostMem
                   THEN [pipeline EXCEPT !.hitGroupSbt = shaderBindingTable,
                                         !.hitGroupRecords = <<>>,
                                         !.hitGroupSbtIsUpToDate = FALSE]
                   ELSE pipeline
    /\ call' = Called("Pipeline::setHitGroupShaderBindingTable", 0,
                      <<shaderBindingTable, hostMem>>, hostMem, 0)
    /\ PipelineOnly

\* Pipeline::markHitGroupShaderBindingTableDirty
Pipeline_markHitGroupShaderBindingTableDirty ==
    /\ pipeline' = [pipeline EXCEPT !.hitGroupSbtIsUpToDate = FALSE]
    /\ call' = Called("Pipeline::markHitGroupShaderBindingTableDirty", 0, <<>>, TRUE, 0)
    /\ PipelineOnly

\* The validation of Pipeline::launch
Pipeline_launchValid ==
    LET r == Scene_isReady
    IN  /\ pipeline.sbtLayoutIsUpToDate
        /\ pipeline.sbt.valid
        /\ pipeline.sbt.bytes >= pipeline.sbtSize
        /\ pipeline.scene # "nullptr"
        /\ r.ready
        /\ (pipeline.usesMotionBlur \/ ~r.hasMotionAS)
        /\ pipeline.hitGroupSbt.valid

\* Pipeline::Priv::setupShaderBindingTable on the Pipeline record p: the
\* record it leaves, whether it returned, whether the SBT was uploaded and
\* whether Scene::Priv::setupHitGroupSBT ran and uploaded the records.
\* fill is what the loops of Scene::Priv::setupHitGroupSBT do when they run.
Pipeline_setupShaderBindingTable(p, fill) ==
    LET sbtOk   == p.sbtIsUpToDate \/ p.rayGenProgram
        p1      == IF p.sbtIsUpToDate \/ ~sbtOk THEN p
                   ELSE [p EXCEPT !.sbtIsUpToDate = TRUE]
        refill  == sbtOk /\ ~p1.hitGroupSbtIsUpToDate
        enough  == p.hitGroupSbt.bytes >= singleRecordSize * numSBTRecords
        r       == IF refill /\ enough THEN fill
                   ELSE [ok |-> FALSE, writes |-> <<>>, fills |-> <<>>]
        p2      == IF refill /\ r.ok
                   THEN [p1 EXCEPT
                            !.hitGroupRecords = r.writes,
                            !.sbtParams =
                                [hitgroupRecordStrideInBytes |-> singleRecordSize,
                                 hitgroupRecordCount |->
                                     p.hitGroupSbt.bytes \div singleRecordSize],
                            !.hitGroupSbtIsUpToDate = TRUE]
                   ELSE p1
    IN  [ok       |-> sbtOk /\ (refill => r.ok),
         pipeline |-> p2,
         uploaded |-> sbtOk /\ ~p.sbtIsUpToDate,
         filled   |-> refill /\ r.ok]

\* Pipeline::launch.  The record of the call tells whether the validation
\* was passed, what setupShaderBindingTable uploaded and whether optixLaunch
\* was called.
Pipeline_launch ==
    \E fill \in {Scene_fillGASs(0)} :
    LET valid == Pipeline_launchValid
        s     == Pipeline_setupShaderBindingTable(pipeline, fill)
    IN  /\ pipeline' = IF valid THEN s.pipeline ELSE pipeline
        /\ call' = Called("Pipeline::launch", 0, <<>>, valid /\ s.ok,
                          [validated  |-> valid,
                           uploaded   |-> valid /\ s.uploaded,
                           filled     |-> valid /\ s.filled,
                           dispatched |-> valid /\ s.ok])
        /\ PipelineOnly

\* ------------------------------------------------------------ input domains
Tradeoffs     == {"Default", "PreferFastTrace", "PreferFastBuild"}
BufferSizes   == 0..MaxAccelSize
CompactSizes  == 1..MaxAccelSize
Handles       == 1..MaxHandle
PreTransforms == {0}

\* What the uninitialised buildOptions.buildFlags of a fresh node may hold.
IndeterminateFlags == SUBSET {"ALLOW_UPDATE", "ALLOW_COMPACTION"}

\* The nodes that exist
LiveGAS == Range(geomASs)
LiveIAS == instASs

\* ------------------------------------------------------------------- Init
\* Scene::Priv constructor
InitLayoutCache ==
    /\ pipeline = PipelinePriv(0, FALSE)
    /\ sbtLayoutIsUpToDate = FALSE
    /\ singleRecordSize = OPTIX_SBT_RECORD_HEADER_SIZE
    /\ numSBTRecords = 0
    /\ sbtOffsets = <<>>
    /\ edits = "first"
    /\ editsDone = "first"

\* A fresh Scene with NumMaterial materials, NumInst instances and its
\* acceleration structures; which GAS and IAS have been created, and the
\* geometry instances, are left to the specification.  memoryRequirement and
\* compactedSize of a fresh node are indeterminate as well, but no handler
\* reads them before prepareForBuild / prepareForCompact has written them.
InitScene ==
    /\ InitLayoutCache
    /\ material = [m \in MaterialIds |-> MaterialPriv]
    /\ xfm = [t \in TransformIds |-> TransformPriv]
    /\ inst = [n \in InstIds |-> InstancePriv]
    /\ gas \in [GASIds -> {GeometryAccelerationStructurePriv(
                                 FALSE, f, CHOOSE req \in AccelBufferSizes : TRUE, 1) :
                              f \in IndeterminateFlags}]
    /\ ias \in [IASIds -> {InstanceAccelerationStructurePriv(
                                 f, CHOOSE req \in AccelBufferSizes : TRUE, 1) :
                              f \in IndeterminateFlags}]
    /\ \A g \in GASIds \ LiveGAS : gas[g].buildFlags = {}
    /\ \A i \in IASIds \ LiveIAS : ias[i].buildFlags = {}
    /\ call = Called("Context::createScene", 0, <<>>, TRUE, 0)

\* ---------------------------------------------------------------- actions
GASLifecycle ==
    \E g \in LiveGAS :
        \/ \E req \in AccelBufferSizes : GAS_prepareForBuild(g, req)
        \/ \E a \in BufferSizes, t \in BufferSizes, h \in Handles : GAS_rebuild(g, a, t, h)
        \/ \E c \in CompactSizes : GAS_prepareForCompact(g, c)
        \/ \E b \in BufferSizes, h \in Handles : GAS_compact(g, b, h)
        \/ GAS_removeUncompacted(g)
        \/ \E t \in BufferSizes : GAS_update(g, t)

IASLifecycle ==
    \E i \in LiveIAS :
        \/ \E req \in AccelBufferSizes : IAS_prepareForBuild(i, req)
        \/ \E n \in 0..NumInst, a \in BufferSizes, t \in BufferSizes, h \in Handles :
               IAS_rebuild(i, n, a, t, h)
        \/ \E c \in CompactSizes : IAS_prepareForCompact(i, c)
        \/ \E b \in BufferSizes, h \in Handles : IAS_compact(i, b, h)
        \/ IAS_removeUncompacted(i)
        \/ \E t \in BufferSizes : IAS_update(i, t)

GASEdit ==
    \E g \in LiveGAS :
        \/ \E u \in BOOLEAN, c \in BOOLEAN : GAS_setConfiguration(g, "Default", u, c, FALSE)
        \/ \E k \in {0, MaxKeys} : GAS_setMotionOptions(g, k)
        \/ \E gi \in GeomInstIds \cup {NULL, ForeignGeomInst}, pt \in PreTransforms :
               GAS_addChild(g, gi, pt)
        \/ \E gi \in GeomInstIds \cup {NULL, ForeignGeomInst}, pt \in PreTransforms :
               GAS_removeChild(g, gi, pt)

IASEdit ==
    \E i \in LiveIAS :
        \/ \E u \in BOOLEAN, c \in BOOLEAN : IAS_setConfiguration(i, "Default", u, c)
        \/ \E k \in {0, MaxKeys} : IAS_setMotionOptions(i, k)
        \/ \E n \in InstIds \cup {NULL, ForeignInst} : IAS_addChild(i, n)
        \/ \E n \in InstIds \cup {NULL, ForeignInst} : IAS_removeChild(i, n)

\* ---------------------------------------------------------------- SpecAS
\* The life cycle of one acceleration structure: the Scene holds a single
\* GAS or a single IAS, configured, edited, built, compacted and updated
\* with every buffer size up to MaxAccelSize.
InitAS ==
    /\ \/ \E g \in GASIds : geomASs = <<g>> /\ instASs = {}
       \/ \E i \in IASIds : geomASs = <<>> /\ instASs = {i}
    /\ geomInst = [gi \in GeomInstIds |->
                      [GeometryInstancePriv(FALSE) EXCEPT !.buffersValid = TRUE]]
    /\ InitScene

NextAS ==
    \/ Scene_generateShaderBindingTableLayout
    \/ GASLifecycle
    \/ IASLifecycle
    \/ GASEdit
    \/ IASEdit

SpecAS == InitAS /\ [][NextAS]_vars

\* ------------------------------------------------------------ SpecLayout
\* The SBT layout cache: the Scene holds one GAS and one IAS, the materials
\* of the geometry instances and the material sets and ray types of the GAS
\* are edited, children come and go, and the layout is generated in between.
\* No acceleration structure is built, so buildFlags is never read and is
\* taken to be empty.
InitLayout ==
    /\ \E g \in GASIds : geomASs = <<g>>
    /\ \E i \in IASIds : instASs = {i}
    /\ geomInst = [gi \in GeomInstIds |-> GeometryInstancePriv(FALSE)]
    /\ InitScene
    /\ \A g \in GASIds : gas[g].buildFlags = {}
    /\ \A i \in IASIds : ias[i].buildFlags = {}

GASChildren ==
    \E g \in LiveGAS, gi \in GeomInstIds \cup {NULL}, pt \in PreTransforms :
        \/ GAS_addChild(g, gi, pt)
        \/ GAS_removeChild(g, gi, pt)

GASMaterialSets ==
    \E g \in LiveGAS :
        \/ \E n \in 0..MaxMatSets : GAS_setNumMaterialSets(g, n)
        \/ \E ms \in 0..MaxMatSets, n \in 1..MaxRayTypes :
               GAS_setNumRayTypes(g, ms, n)

GeomInstMaterials ==
    \E gi \in GeomInstIds :
        \/ \E n \in 0..MaxNumMaterials : GeometryInstance_setNumMaterials(gi, n, n > 1)
        \/ \E ms \in 0..MaxMatSets - 1, k \in 0..MaxNumMaterials,
              mat \in MaterialIds :
               GeometryInstance_setMaterial(gi, ms, k, mat)

NextLayout ==
    \/ Scene_generateShaderBindingTableLayout
    \/ GASChildren
    \/ GASMaterialSets
    \/ GeomInstMaterials

SpecLayout == InitLayout /\ [][NextLayout]_vars

\* ------------------------------------------------------------- SpecDirty
\* A GAS and an IAS side by side in a scene graph that is already wired:
\* every instance has the GAS as its child, with material set 0, and is a
\* child of the IAS (Instance::setChild and addChild on fresh nodes lead
\* there).  Both are configured, built and compacted with buffers that are
\* large enough, and the GAS's material sets and ray types are edited.  The
\* indeterminate buildFlags of a fresh node are taken to be empty here; SpecAS
\* runs the life cycle from every value they may hold.
EnoughBytes == MaxAccelSize

InitDirty ==
    /\ InitLayoutCache
    /\ material = [m \in MaterialIds |-> MaterialPriv]
    /\ xfm = [t \in TransformIds |-> TransformPriv]
    /\ geomInst = [gi \in GeomInstIds |->
                      [GeometryInstancePriv(FALSE) EXCEPT !.buffersValid = TRUE]]
    /\ gas = [g \in GASIds |-> GeometryAccelerationStructurePriv(
                                   FALSE, {}, CHOOSE req \in AccelBufferSizes : TRUE, 1)]
    /\ \E g \in GASIds, i \in IASIds :
           /\ geomASs = <<g>>
           /\ instASs = {i}
           /\ inst = [n \in InstIds |->
                         [type |-> "GAS", child |-> g, matSetIndex |-> 0]]
           /\ ias = [j \in IASIds |->
                        LET r == InstanceAccelerationStructurePriv(
                                     {}, CHOOSE req \in AccelBufferSizes : TRUE, 1)
                        IN  IF j = i
                            THEN [r EXCEPT !.children = [k \in 1..NumInst |-> k]]
                            ELSE r]
           /\ call = Called("IAS::addChild", i, <<NumInst>>, TRUE, 0)

GASBuild ==
    \E g \in LiveGAS, h \in {MaxHandle} :
        \/ \E c \in BOOLEAN : GAS_setConfiguration(g, "Default", FALSE, c, FALSE)
        \/ GAS_prepareForBuild(g, CHOOSE req \in AccelBufferSizes : TRUE)
        \/ GAS_rebuild(g, EnoughBytes, EnoughBytes, h)
        \/ GAS_prepareForCompact(g, 1)
        \/ GAS_compact(g, EnoughBytes, h)

IASBuild ==
    \E i \in LiveIAS, h \in {MaxHandle} :
        \/ \E c \in BOOLEAN : IAS_setConfiguration(i, "Default", FALSE, c)
        \/ IAS_prepareForBuild(i, CHOOSE req \in AccelBufferSizes : TRUE)
        \/ IAS_rebuild(i, NumInst, EnoughBytes, EnoughBytes, h)
        \/ IAS_prepareForCompact(i, 1)
        \/ IAS_compact(i, EnoughBytes, h)

GASLayoutEdit ==
    \E g \in LiveGAS :
        \/ GAS_setNumMaterialSets(g, MaxMatSets)
        \/ \E ms \in 0..MaxMatSets, n \in 1..MaxRayTypes : GAS_setNumRayTypes(g, ms, n)
        \/ GAS_markDirty(g)

NextDirty ==
    \/ Scene_generateShaderBindingTableLayout
    \/ GASBuild
    \/ IASBuild
    \/ GASLayoutEdit

SpecDirty == InitDirty /\ [][NextDirty]_vars

\* ------------------------------------------------------------- SpecScene
\* A Scene whose GASs are created and destroyed while it lives: the GASs
\* get material sets, ray types, children and user data, the geometry
\* instances and materials get material slots and user data, and the layout
\* is generated in between.  No acceleration structure is built.
UserDataSizes == {OPTIX_SBT_RECORD_ALIGNMENT, s_maxMaterialUserDataSize + 1}
UserDataAlignments == {0, OPTIX_SBT_RECORD_ALIGNMENT}

InitSceneGraph ==
    /\ geomASs = <<>>
    /\ instASs = {}
    /\ geomInst = [gi \in GeomInstIds |-> GeometryInstancePriv(FALSE)]
    /\ InitScene

SceneGASs ==
    \E g \in GASIds :
        \/ Scene_createGeometryAccelerationStructure(g, FALSE, {})
        \/ GAS_destroy(g)

SceneGASEdit ==
    \E g \in LiveGAS :
        \/ GAS_setNumMaterialSets(g, MaxMatSets)
        \/ GAS_setNumRayTypes(g, MaxMatSets - 1, MaxRayTypes)
        \/ \E gi \in GeomInstIds : GAS_addChild(g, gi, 0)

SceneUserData ==
    \E size \in UserDataSizes, alignment \in UserDataAlignments :
        \/ \E mat \in MaterialIds : Material_setUserData(mat, size, alignment)
        \/ \E gi \in GeomInstIds : GeometryInstance_setUserData(gi, size, alignment)
        \/ \E g \in LiveGAS : GAS_setUserData(g, size, alignment)

SceneMaterials ==
    \E gi \in GeomInstIds :
        \/ \E n \in 1..MaxNumMaterials + 1 :
               GeometryInstance_setNumMaterials(gi, n, n > 1)
        \/ \E mat \in MaterialIds : GeometryInstance_setMaterial(gi, 0, 0, mat)

NextScene ==
    \/ Scene_generateShaderBindingTableLayout
    \/ SceneGASs
    \/ SceneGASEdit
    \/ SceneUserData
    \/ SceneMaterials

SpecScene == InitSceneGraph /\ [][NextScene]_vars

\* ----------------------------------------------------------- SpecRecords
\* GeometryAccelerationStructure::Priv::calcNumSBTRecords as a function of
\* the GAS it is called on: the Scene holds one GAS and RecNumGeomInst
\* geometry instances (numbered from 1 in this specification), each with up
\* to RecMaxMaterials material slots as setNumMaterials leaves them; the GAS
\* has any list of distinct children, as addChild builds it, and up to
\* RecMaxMatSets material sets with up to MaxRayTypes ray types each, as
\* setNumMaterialSets and setNumRayTypes leave them.
RecNumGeomInst  == 2
RecMaxMaterials == 3
RecMaxMatSets   == 2

RecGeomInstIds == 1..RecNumGeomInst

\* The lists without repetition over a set
RECURSIVE ListsOver(_)
ListsOver(S) ==
    {<<>>} \cup UNION {{<<x>> \o l : l \in ListsOver(S \ {x})} : x \in S}

InitRecords ==
    /\ InitLayoutCache
    /\ material = [m \in MaterialIds |-> MaterialPriv]
    /\ xfm = [t \in TransformIds |-> TransformPriv]
    /\ inst = [n \in InstIds |-> InstancePriv]
    /\ ias = [i \in IASIds |-> InstanceAccelerationStructurePriv(
                                   {}, CHOOSE req \in AccelBufferSizes : TRUE, 1)]
    /\ instASs = {}
    /\ \E n \in [RecGeomInstIds -> 0..RecMaxMaterials] :
           geomInst = [gi \in RecGeomInstIds |->
                          [GeometryInstancePriv(FALSE) EXCEPT
                               !.numSBTRecords = n[gi],
                               !.materials = Resize(<<>>, n[gi], <<NULL>>)]]
    /\ \E g \in GASIds, l \in ListsOver(RecGeomInstIds), ms \in 0..RecMaxMatSets :
       \E rays \in [1..ms -> 0..MaxRayTypes] :
           /\ geomASs = <<g>>
           /\ gas = [h \in GASIds |->
                        LET r == GeometryAccelerationStructurePriv(
                                     FALSE, {}, CHOOSE req \in AccelBufferSizes : TRUE, 1)
                        IN  IF h # g THEN r
                            ELSE [r EXCEPT
                                    !.children = [k \in 1..Len(l) |->
                                                     [geomInst |-> l[k],
                                                      preTransform |-> 0]],
                                    !.numRayTypesPerMaterialSet = rays]]
           /\ call = Called("GAS::setNumMaterialSets", g, <<ms>>, TRUE, 0)

\* calcNumSBTRecords called, as generateShaderBindingTableLayout calls it,
\* with a material set index of the GAS.
GAS_calcNumSBTRecordsCalled(g, matSetIdx) ==
    /\ matSetIdx < GAS_getNumMaterialSets(g)
    /\ call' = Called("GAS::calcNumSBTRecords", g, <<matSetIdx>>, TRUE,
                      GAS_calcNumSBTRecords(g, matSetIdx))
    /\ NothingNoted
    /\ UNCHANGED <<sceneVars, nodeVars>>

NextRecords ==
    \E g \in LiveGAS, matSetIdx \in 0..RecMaxMatSets - 1 :
        GAS_calcNumSBTRecordsCalled(g, matSetIdx)

SpecRecords == InitRecords /\ [][NextRecords]_vars

\* ------------------------------------------------------------ SpecStatic
\* One Transform of the Scene, configured and given static matrices.  The
\* matrices tried have a 3x3 block whose rows each hold at most one entry
\* -1 or 1 (so that the determinant is -1, 0 or 1 and every float involved is
\* a whole number or an infinity or NaN) and a translation of zeros and ones.
AxisRows ==
    {<<0, 0, 0>>} \cup
    {[c \in 1..3 |-> IF c = k THEN s ELSE 0] : k \in 1..3, s \in {-1, 1}}

Translations == {<<0, 0, 0>>, <<1, 0, 0>>, <<0, 1, 1>>}

StaticMatrices ==
    {<<r1[1], r1[2], r1[3], tr[1],
       r2[1], r2[2], r2[3], tr[2],
       r3[1], r3[2], r3[3], tr[3]>> :
        r1 \in AxisRows, r2 \in AxisRows, r3 \in AxisRows,
        tr \in Translations}

InitStatic ==
    /\ geomASs = <<>>
    /\ instASs = {}
    /\ geomInst = [gi \in GeomInstIds |-> GeometryInstancePriv(FALSE)]
    /\ InitScene

NextStatic ==
    \E t \in {NumTransform} :
        \/ \E type \in {"Static", "MatrixMotion"} : Transform_setConfiguration(t, type, 0)
        \/ \E matrix \in StaticMatrices : Transform_setStaticTransform(t, matrix)

SpecStatic == InitStatic /\ [][NextStatic]_vars

\* ----------------------------------------------------------- SpecChildren
\* The children lists: one GAS for triangles or custom primitives and one
\* IAS, geometry instances of either primitive kind, the last one added and
\* removed with two pre-transform addresses, motion options and motion step
\* counts changed, the GAS prepared and built in between.
ChildPreTransforms == {0, OPTIX_SBT_RECORD_ALIGNMENT}

InitChildren ==
    /\ InitLayoutCache
    /\ material = [m \in MaterialIds |-> MaterialPriv]
    /\ xfm = [t \in TransformIds |-> TransformPriv]
    /\ inst = [n \in InstIds |-> InstancePriv]
    /\ \E kind \in BOOLEAN :
           geomInst = [gi \in GeomInstIds |->
                          [GeometryInstancePriv(kind) EXCEPT !.buffersValid = TRUE]]
    /\ \E g \in {NumGAS}, i \in {NumIAS}, forCustomPrimitives \in BOOLEAN :
           /\ geomASs = <<g>>
           /\ instASs = {i}
           /\ gas = [h \in GASIds |->
                        GeometryAccelerationStructurePriv(
                            IF h = g THEN forCustomPrimitives ELSE FALSE, {},
                            CHOOSE req \in AccelBufferSizes : TRUE, 1)]
    /\ ias = [j \in IASIds |-> InstanceAccelerationStructurePriv(
                                   {}, CHOOSE req \in AccelBufferSizes : TRUE, 1)]
    /\ call = Called("Context::createScene", 0, <<>>, TRUE, 0)

ChildrenEdit ==
    \/ \E g \in LiveGAS, gi \in {NumGeomInst, NULL, ForeignGeomInst},
          pt \in ChildPreTransforms :
           \/ GAS_addChild(g, gi, pt)
           \/ GAS_removeChild(g, gi, pt)
    \/ \E i \in LiveIAS, n \in {NumInst, NULL, ForeignInst} :
           \/ IAS_addChild(i, n)
           \/ IAS_removeChild(i, n)

ChildrenMotion ==
    \/ \E g \in LiveGAS, k \in {0, MaxKeys} : GAS_setMotionOptions(g, k)
    \/ \E n \in {0, MaxKeys} : GeometryInstance_setNumMotionSteps(NumGeomInst, n)
    \/ GeometryInstance_setBuffers(NumGeomInst, TRUE)

ChildrenBuild ==
    \E g \in LiveGAS :
        \/ GAS_prepareForBuild(g, CHOOSE req \in AccelBufferSizes : TRUE)
        \/ GAS_rebuild(g, MaxAccelSize, MaxAccelSize, MaxHandle)

NextChildren ==
    \/ ChildrenEdit
    \/ ChildrenMotion
    \/ ChildrenBuild

SpecChildren == InitChildren /\ [][NextChildren]_vars

\* ------------------------------------------------------------- SpecStride
\* The record stride and the layout of a record.  The Scene holds one GAS
\* with one material set of one ray type, as setNumMaterialSets(1) and
\* setNumRayTypes(0, 1) leave it; the last GeometryInstance is its child or
\* not (addChild), and has no material slot or one slot bound to the last
\* Material (setNumMaterials, setMaterial), which has its hit group
\* (setHitGroup).  The three get user data of several sizes and alignments;
\* the layout is generated and the hit group SBT filled in between.
StrideUserData == {<<40, 8>>, <<4, 3>>}

InitStride ==
    /\ InitLayoutCache
    /\ instASs = {}
    /\ xfm = [t \in TransformIds |-> TransformPriv]
    /\ inst = [n \in InstIds |-> InstancePriv]
    /\ ias = [i \in IASIds |-> InstanceAccelerationStructurePriv(
                                   {}, CHOOSE req \in AccelBufferSizes : TRUE, 1)]
    /\ material = [m \in MaterialIds |->
                      IF m = NumMaterial THEN [MaterialPriv EXCEPT !.programs = {0}]
                      ELSE MaterialPriv]
    /\ \E hasSlot \in BOOLEAN :
           geomInst = [gi \in GeomInstIds |->
                          IF gi = NumGeomInst /\ hasSlot
                          THEN [GeometryInstancePriv(FALSE) EXCEPT
                                    !.numSBTRecords = 1,
                                    !.materials = <<(<<NumMaterial>>)>>]
                          ELSE GeometryInstancePriv(FALSE)]
    /\ \E g \in GASIds, hasChild \in BOOLEAN :
           /\ geomASs = <<g>>
           /\ gas = [h \in GASIds |->
                        LET r == GeometryAccelerationStructurePriv(
                                     FALSE, {}, CHOOSE req \in AccelBufferSizes : TRUE, 1)
                        IN  IF h # g THEN r
                            ELSE [r EXCEPT
                                    !.numRayTypesPerMaterialSet = <<1>>,
                                    !.children =
                                        IF hasChild
                                        THEN <<[geomInst |-> NumGeomInst,
                                                preTransform |-> 0]>>
                                        ELSE <<>>]]
           /\ call = Called("GAS::setNumRayTypes", g, <<0, 1>>, TRUE, 0)

StrideUserDataSet ==
    \E d \in StrideUserData :
        \/ Material_setUserData(NumMaterial, d[1], d[2])
        \/ GeometryInstance_setUserData(NumGeomInst, d[1], d[2])
        \/ \E g \in LiveGAS : GAS_setUserData(g, d[1], d[2])

NextStride ==
    \/ StrideUserDataSet
    \/ \E rayType \in 0..MaxRayTypes - 1 : Material_setHitGroup(NumMaterial, rayType)
    \/ Scene_generateShaderBindingTableLayout
    \/ \E enough \in BOOLEAN : Scene_setupHitGroupSBT(enough)

SpecStride == InitStride /\ [][NextStride]_vars

\* ---------------------------------------------------------- SpecInstances
\* One instance under one IAS, with a built GAS of RecMaxMatSets material
\* sets (one ray type each, one geometry instance with one bound slot) and
\* two static Transforms to chain without a cycle.  The instance's child
\* and material set index and the Transforms' children are edited at any
\* time; the layout is generated, the Transforms and the IAS are built.
\* Material set index RecMaxMatSets has no entry in the layout.
ChainTransforms == {NumTransform - 1, NumTransform}

InstanceMatSets == 0..RecMaxMatSets

InitInstances ==
    /\ InitLayoutCache
    /\ material = [m \in MaterialIds |->
                      IF m = NumMaterial THEN [MaterialPriv EXCEPT !.programs = {0}]
                      ELSE MaterialPriv]
    /\ xfm = [t \in TransformIds |->
                 [TransformPriv EXCEPT
                     !.type = "Static",
                     !.data = [transform    |-> AsFloats(ConfiguredMatrix),
                               invTransform |-> AsFloats(ConfiguredMatrix)]]]
    /\ geomInst = [gi \in GeomInstIds |->
                      IF gi = NumGeomInst
                      THEN [GeometryInstancePriv(FALSE) EXCEPT
                                !.buffersValid = TRUE,
                                !.numSBTRecords = 1,
                                !.materials =
                                    <<[k \in 1..RecMaxMatSets |-> NumMaterial]>>]
                      ELSE GeometryInstancePriv(FALSE)]
    /\ inst = [n \in InstIds |-> InstancePriv]
    /\ LET g == NumGAS
           i == NumIAS
       IN
           /\ geomASs = <<g>>
           /\ instASs = {i}
           /\ gas = [h \in GASIds |->
                        LET r == GeometryAccelerationStructurePriv(
                                     FALSE, {}, CHOOSE req \in AccelBufferSizes : TRUE, 1)
                        IN  IF h # g THEN r
                            ELSE [r EXCEPT
                                    !.numRayTypesPerMaterialSet =
                                        [k \in 1..RecMaxMatSets |-> 1],
                                    !.children = <<[geomInst |-> NumGeomInst,
                                                    preTransform |-> 0]>>,
                                    !.buildInputs = 1,
                                    !.readyToBuild = TRUE,
                                    !.handle = MaxHandle,
                                    !.available = TRUE]]
           /\ ias = [j \in IASIds |->
                        LET r == InstanceAccelerationStructurePriv(
                                     {}, CHOOSE req \in AccelBufferSizes : TRUE, 1)
                        IN  IF j = i THEN [r EXCEPT !.children = <<NumInst>>]
                            ELSE r]
           /\ call = Called("IAS::addChild", i, <<NumInst>>, TRUE, 0)

InstanceEdit ==
    \E matSetIdx \in InstanceMatSets :
        \/ \E g \in LiveGAS : Instance_setChildGAS(NumInst, g, matSetIdx)
        \/ \E i \in LiveIAS : Instance_setChildIAS(NumInst, i)
        \/ \E t \in ChainTransforms : Instance_setChildTransform(NumInst, t, matSetIdx)
        \/ Instance_setMaterialSetIndex(NumInst, matSetIdx)

TransformEdit ==
    \E t \in ChainTransforms :
        \/ \E g \in LiveGAS : Transform_setChildGAS(t, g)
        \/ \E i \in LiveIAS : Transform_setChildIAS(t, i)
        \/ \E c \in ChainTransforms :
               Transform_keepsChainsFinite(t, c) /\ Transform_setChildTransform(t, c)
        \/ Transform_rebuild(t, TRUE, MaxHandle)

InstancesBuild ==
    \E i \in LiveIAS :
        \/ IAS_prepareForBuild(i, CHOOSE req \in AccelBufferSizes : TRUE)
        \/ IAS_rebuild(i, NumInst, EnoughBytes, EnoughBytes, MaxHandle)

NextInstances ==
    \/ InstanceEdit
    \/ TransformEdit
    \/ InstancesBuild
    \/ Scene_generateShaderBindingTableLayout
    \/ \E g \in LiveGAS : GAS_markDirty(g)

SpecInstances == InitInstances /\ [][NextInstances]_vars

\* -------------------------------------------------------------- SpecChain
\* The scene of SpecInstances with every Transform of the Scene in play:
\* the Transforms are linked into chains of any length up to NumTransform
\* and built, the instance is put on any of them, and prepareForBuild
\* materializes its record.
ChainMatSet == RecMaxMatSets - 1

ChainEdit ==
    \E t \in TransformIds :
        \/ \E g \in LiveGAS : Transform_setChildGAS(t, g)
        \/ \E i \in LiveIAS : Transform_setChildIAS(t, i)
        \/ \E c \in TransformIds :
               Transform_keepsChainsFinite(t, c) /\ Transform_setChildTransform(t, c)
        \/ Transform_rebuild(t, TRUE, MaxHandle)
        \/ Instance_setChildTransform(NumInst, t, ChainMatSet)

NextChain ==
    \/ ChainEdit
    \/ Scene_generateShaderBindingTableLayout
    \/ \E i \in LiveIAS :
           IAS_prepareForBuild(i, CHOOSE req \in AccelBufferSizes : TRUE)

SpecChain == InitInstances /\ [][NextChain]_vars

\* -------------------------------------------------------------- SpecCycle
\* The Transforms of the scene of SpecInstances linked by setChild in every
\* way the code accepts, a Transform as its own child included, and built;
\* the instance is put on any of them, and fillInstance / updateInstance
\* reach their getDescendantGAS call, which they do for a Transform child
\* that is ready.  ok = FALSE in the record of that call stands for a call
\* that does not return.
Instance_getDescendantGASCalled(n) ==
    /\ inst[n].type = "Transform"
    /\ TransformPriv_isReady(xfm[inst[n].child])
    /\ LET desGas == Transform_getDescendantGAS(inst[n].child)
       IN  call' = Called("Transform::getDescendantGAS", inst[n].child, <<>>,
                          desGas # DoesNotReturn, desGas)
    /\ NothingNoted
    /\ UNCHANGED <<sceneVars, nodeVars>>

NextCycle ==
    \/ \E t \in TransformIds :
           \/ \E g \in LiveGAS : Transform_setChildGAS(t, g)
           \/ \E i \in LiveIAS : Transform_setChildIAS(t, i)
           \/ \E c \in TransformIds : Transform_setChildTransform(t, c)
           \/ Transform_rebuild(t, TRUE, MaxHandle)
           \/ Instance_setChildTransform(NumInst, t, 0)
    \/ Instance_getDescendantGASCalled(NumInst)

SpecCycle == InitInstances /\ [][NextCycle]_vars

\* ---------------------------------------------------------- SpecTransform
\* The life of the last Transform of the scene of SpecInstances: configured
\* with any type and with no or MaxKeys + 1 motion keys, given motion
\* options, motion keys at every index up to one behind the accepted ones
\* and a static matrix, given the built GAS, the IAS (never built here) or
\* the Transform before it as child, and built with a buffer that is large
\* enough or not.  The Transform before it gets the GAS as child and is
\* built, so that it is met as a child that is ready and as one that is not.
MotionKeyCounts == {0, MaxKeys + 1}

MotionMatrix == <<0, 1, 0, 0,  1, 0, 0, 0,  0, 0, 1, 1>>

TransformConfigure ==
    \E t \in {NumTransform} :
        \/ \E type \in {"Invalid", "Static", "MatrixMotion", "SRTMotion"},
              numKeys \in MotionKeyCounts :
               Transform_setConfiguration(t, type, numKeys)
        \/ Transform_setMotionOptions(t)
        \/ Transform_setStaticTransform(t, MotionMatrix)
        \/ \E keyIdx \in 0..MaxKeys + 2 :
               \/ Transform_setMatrixMotionKey(t, keyIdx, MotionMatrix)
               \/ Transform_setSRTMotionKey(t, keyIdx, <<1, 1, 1>>, <<1, 0, 0, 0>>,
                                            <<0, 0, 1>>)

TransformChildren ==
    \/ \E t \in {NumTransform} :
           \/ \E g \in LiveGAS : Transform_setChildGAS(t, g)
           \/ \E i \in LiveIAS : Transform_setChildIAS(t, i)
           \/ Transform_setChildTransform(t, NumTransform - 1)
           \/ \E enough \in BOOLEAN : Transform_rebuild(t, enough, MaxHandle)
    \/ \E g \in LiveGAS : Transform_setChildGAS(NumTransform - 1, g)
    \/ Transform_rebuild(NumTransform - 1, TRUE, MaxHandle)

NextTransform ==
    \/ TransformConfigure
    \/ TransformChildren

SpecTransform == InitInstances /\ [][NextTransform]_vars

\* --------------------------------------------------------------- SpecFill
\* The fill pass against the layout pass.  As in SpecRecords the Scene
\* holds one GAS with any list of distinct children out of RecNumGeomInst
\* geometry instances and no, one or RecMaxMatSets material sets of no, one or
\* MaxRayTypes ray types; every GeometryInstance has no material slot or
\* RecMaxMaterials of them, each bound to the last Material
\* (setMaterial), which has
\* hit groups for the first ray type or for all of them (setHitGroup).  The
\* layout is generated and the hit group SBT is filled.
InitFill ==
    /\ InitLayoutCache
    /\ xfm = [t \in TransformIds |-> TransformPriv]
    /\ inst = [n \in InstIds |-> InstancePriv]
    /\ ias = [i \in IASIds |-> InstanceAccelerationStructurePriv(
                                   {}, CHOOSE req \in AccelBufferSizes : TRUE, 1)]
    /\ instASs = {}
    /\ \E programs \in {{0}, 0..MaxRayTypes - 1} :
           material = [m \in MaterialIds |->
                          IF m = NumMaterial
                          THEN [MaterialPriv EXCEPT !.programs = programs]
                          ELSE MaterialPriv]
    /\ \E n \in [RecGeomInstIds -> {0, RecMaxMaterials}] :
           geomInst = [gi \in RecGeomInstIds |->
                          [GeometryInstancePriv(FALSE) EXCEPT
                               !.numSBTRecords = n[gi],
                               !.materials = Resize(<<>>, n[gi], <<NumMaterial>>)]]
    /\ \E g \in {NumGAS}, l \in ListsOver(RecGeomInstIds), ms \in {0, 1, RecMaxMatSets} :
       \E rays \in [1..ms -> {0, 1, MaxRayTypes}] :
           /\ geomASs = <<g>>
           /\ gas = [h \in GASIds |->
                        LET r == GeometryAccelerationStructurePriv(
                                     FALSE, {}, CHOOSE req \in AccelBufferSizes : TRUE, 1)
                        IN  IF h # g THEN r
                            ELSE [r EXCEPT
                                    !.children = [k \in 1..Len(l) |->
                                                     [geomInst |-> l[k],
                                                      preTransform |-> 0]],
                                    !.numRayTypesPerMaterialSet = rays]]
           /\ call = Called("GAS::setNumMaterialSets", g, <<ms>>, TRUE, 0)

NextFill ==
    \/ Scene_generateShaderBindingTableLayout
    \/ \E enough \in BOOLEAN : Scene_setupHitGroupSBT(enough)

SpecFill == InitFill /\ [][NextFill]_vars

\* ---------------------------------------------------------- SpecSelect
\* Which Material a record is sized and filled for.  One GAS with
\* RecMaxMatSets material sets of one ray type and one GeometryInstance with
\* SelectNumMaterials slots (setNumMaterials), every slot bound in material
\* set 0 (setMaterial).  The Materials have hit groups for every ray type
\* and user data of different sizes (setUserData), so that a record shows
\* which Material it was written for.
SelectNumMaterials == 2

SelectMaterials == {NumMaterial, NumMaterial + 1}

SelectUserData(m) ==
    SizeAlign(OPTIX_SBT_RECORD_ALIGNMENT * (m - NumMaterial + 1),
              OPTIX_SBT_RECORD_ALIGNMENT)

InitSelect ==
    /\ InitLayoutCache
    /\ xfm = [t \in TransformIds |-> TransformPriv]
    /\ inst = [n \in InstIds |-> InstancePriv]
    /\ ias = [i \in IASIds |-> InstanceAccelerationStructurePriv(
                                   {}, CHOOSE req \in AccelBufferSizes : TRUE, 1)]
    /\ instASs = {}
    /\ material = [m \in 1..NumMaterial + 1 |->
                      [userDataSizeAlign |-> SelectUserData(m),
                       programs |-> 0..MaxRayTypes - 1]]
    /\ geomInst = [gi \in GeomInstIds |->
                      [GeometryInstancePriv(FALSE) EXCEPT
                           !.numSBTRecords = SelectNumMaterials,
                           !.materials = Resize(<<>>, SelectNumMaterials,
                                                <<NumMaterial>>)]]
    /\ geomASs = <<NumGAS>>
    /\ gas = [h \in GASIds |->
                 LET r == GeometryAccelerationStructurePriv(
                              FALSE, {}, CHOOSE req \in AccelBufferSizes : TRUE, 1)
                 IN  IF h # NumGAS THEN r
                     ELSE [r EXCEPT
                             !.children = <<[geomInst |-> NumGeomInst,
                                             preTransform |-> 0]>>,
                             !.numRayTypesPerMaterialSet =
                                 Resize(<<>>, RecMaxMatSets, 1)]]
    /\ call = Called("GeometryInstance::setMaterial", NumGeomInst,
                     <<0, SelectNumMaterials - 1, NumMaterial>>, TRUE, 0)

NextSelect ==
    \/ \E matSetIdx \in {0, RecMaxMatSets - 1},
          matIdx \in {0, SelectNumMaterials - 1, SelectNumMaterials},
          mat \in SelectMaterials \cup {NULL} :
           GeometryInstance_setMaterial(NumGeomInst, matSetIdx, matIdx, mat)
    \/ GAS_setNumRayTypes(NumGAS, 0, 1)
    \/ Scene_generateShaderBindingTableLayout
    \/ \E enough \in BOOLEAN : Scene_setupHitGroupSBT(enough)

SpecSelect == InitSelect /\ [][NextSelect]_vars

\* -------------------------------------------------------- SpecSizeAlign
\* SizeAlign on its own: a default-constructed SizeAlign to which one item
\* of each alignment of AddAlignments is added, in any order and with any
\* size up to AddMaxSize, and which is rounded with alignUp at any time.
\* The Scene is fresh and stays so; the SizeAlign, the alignments added and
\* the offset handed back are kept in the record of the call.
AddMaxSize == 17

AddAlignments == {4, 8, OPTIX_SBT_RECORD_ALIGNMENT}

InitSizeAlign ==
    /\ InitLayoutCache
    /\ geomASs = <<>>
    /\ instASs = {}
    /\ material = [m \in MaterialIds |-> MaterialPriv]
    /\ geomInst = [gi \in GeomInstIds |-> GeometryInstancePriv(FALSE)]
    /\ xfm = [t \in TransformIds |-> TransformPriv]
    /\ inst = [n \in InstIds |-> InstancePriv]
    /\ gas = [g \in GASIds |-> GeometryAccelerationStructurePriv(
                                   FALSE, {}, CHOOSE req \in AccelBufferSizes : TRUE, 1)]
    /\ ias = [i \in IASIds |-> InstanceAccelerationStructurePriv(
                                   {}, CHOOSE req \in AccelBufferSizes : TRUE, 1)]
    /\ call = Called("SizeAlign::SizeAlign", 0, <<>>, TRUE,
                     [sa |-> SizeAlignDefault, from |-> SizeAlignDefault,
                      offset |-> 0, added |-> {}])

\* self.add(SizeAlign(size, alignment), &offset) on the SizeAlign at hand
SizeAlign_added(size, alignment) ==
    LET self == call.ret.sa
        r    == SizeAlign_add(self, SizeAlign(size, alignment))
    IN  /\ alignment \notin call.ret.added
        /\ call' = Called("SizeAlign::add", 0, <<size, alignment>>, TRUE,
                          [sa |-> r.sa, from |-> self, offset |-> r.offset,
                           added |-> call.ret.added \cup {alignment}])
        /\ NothingNoted
        /\ UNCHANGED <<sceneVars, nodeVars>>

\* self.alignUp() on the SizeAlign at hand
SizeAlign_alignedUp ==
    LET self == call.ret.sa
    IN  /\ call' = Called("SizeAlign::alignUp", 0, <<>>, TRUE,
                          [sa |-> SizeAlign_alignUp(self), from |-> self,
                           offset |-> call.ret.offset, added |-> call.ret.added])
        /\ NothingNoted
        /\ UNCHANGED <<sceneVars, nodeVars>>

NextSizeAlign ==
    \/ \E size \in 0..AddMaxSize, alignment \in AddAlignments :
           SizeAlign_added(size, alignment)
    \/ SizeAlign_alignedUp

SpecSizeAlign == InitSizeAlign /\ [][NextSizeAlign]_vars

\* ---------------------------------------------------------- SpecLaunch
\* A Pipeline on the Scene.  The Scene has one built GAS with one material
\* set, whose child has one slot bound to a Material with hit groups for
\* every ray type, NumTransform Transforms on that GAS, of which all but the
\* last are built, and one IAS holding an Instance of the GAS.  The GAS, the
\* last Transform and the IAS become dirty and are built again, the number
\* of ray types changes, the Scene's layout is generated; the Pipeline,
\* which is not configured for motion blur, gets its layout, ray generation
\* program, SBT, Scene and hit group SBT, and is launched at any time.
LaunchBuffers ==
    {BufferView(TRUE, n * OPTIX_SBT_RECORD_HEADER_SIZE) : n \in {1, MaxRayTypes}}

InitLaunch ==
    /\ sbtLayoutIsUpToDate = FALSE
    /\ singleRecordSize = OPTIX_SBT_RECORD_HEADER_SIZE
    /\ numSBTRecords = 0
    /\ sbtOffsets = <<>>
    /\ edits = "first"
    /\ editsDone = "first"
    /\ \E sbtSize \in {0, MaxRayTypes * OPTIX_SBT_RECORD_HEADER_SIZE} :
           pipeline = PipelinePriv(sbtSize, FALSE)
    /\ material = [m \in MaterialIds |->
                      [MaterialPriv EXCEPT !.programs = 0..MaxRayTypes - 1]]
    /\ xfm = [t \in TransformIds |->
                 [TransformPriv EXCEPT
                     !.type = "Static",
                     !.data = [transform    |-> AsFloats(ConfiguredMatrix),
                               invTransform |-> AsFloats(ConfiguredMatrix)],
                     !.childType = "GAS",
                     !.child = NumGAS,
                     !.handle = IF t = NumTransform THEN 0 ELSE MaxHandle,
                     !.available = t # NumTransform]]
    /\ geomInst = [gi \in GeomInstIds |->
                      [GeometryInstancePriv(FALSE) EXCEPT
                           !.buffersValid = TRUE,
                           !.numSBTRecords = 1,
                           !.materials = <<(<<NumMaterial>>)>>]]
    /\ inst = [n \in InstIds |-> [type |-> "GAS", child |-> NumGAS, matSetIndex |-> 0]]
    /\ geomASs = <<NumGAS>>
    /\ instASs = {NumIAS}
    /\ gas = [h \in GASIds |->
                 LET r == GeometryAccelerationStructurePriv(
                              FALSE, {}, CHOOSE req \in AccelBufferSizes : TRUE, 1)
                 IN  IF h # NumGAS THEN r
                     ELSE [r EXCEPT
                             !.numRayTypesPerMaterialSet = <<1>>,
                             !.children = <<[geomInst |-> NumGeomInst,
                                             preTransform |-> 0]>>,
                             !.buildInputs = 1,
                             !.readyToBuild = TRUE,
                             !.handle = MaxHandle,
                             !.available = TRUE]]
    /\ ias = [j \in IASIds |->
                 LET r == InstanceAccelerationStructurePriv(
                              {}, CHOOSE req \in AccelBufferSizes : TRUE, 1)
                 IN  IF j = NumIAS THEN [r EXCEPT !.children = <<NumInst>>] ELSE r]
    /\ call = Called("IAS::addChild", NumIAS, <<NumInst>>, TRUE, 0)

LaunchSceneEdit ==
    \/ \E n \in {1, MaxRayTypes} : GAS_setNumRayTypes(NumGAS, 0, n)
    \/ GAS_markDirty(NumGAS)
    \/ Transform_setChildGAS(NumTransform, NumGAS)

LaunchSceneBuild ==
    \/ Scene_generateShaderBindingTableLayout
    \/ GAS_prepareForBuild(NumGAS, CHOOSE req \in AccelBufferSizes : TRUE)
    \/ GAS_rebuild(NumGAS, EnoughBytes, EnoughBytes, MaxHandle)
    \/ Transform_rebuild(NumTransform, TRUE, MaxHandle)
    \/ IAS_prepareForBuild(NumIAS, CHOOSE req \in AccelBufferSizes : TRUE)
    \/ IAS_rebuild(NumIAS, NumInst, EnoughBytes, EnoughBytes, MaxHandle)

LaunchPipelineSetup ==
    \/ Pipeline_generateShaderBindingTableLayout
    \/ Pipeline_setRayGenerationProgram
    \/ Pipeline_setShaderBindingTable(
           BufferView(TRUE, MaxRayTypes * OPTIX_SBT_RECORD_HEADER_SIZE), TRUE)
    \/ \E b \in LaunchBuffers, hostMem \in BOOLEAN :
           Pipeline_setHitGroupShaderBindingTable(b, hostMem)
    \/ Pipeline_setScene("scene")
    \/ Pipeline_markHitGroupShaderBindingTableDirty

NextLaunch ==
    \/ LaunchSceneEdit
    \/ LaunchSceneBuild
    \/ LaunchPipelineSetup
    \/ Pipeline_launch

SpecLaunch == InitLaunch /\ [][NextLaunch]_vars

\* ------------------------------------------------- properties of SpecAS
\* The node a GAS / IAS call was made on, as it was before the call.
CalledGAS(op) == call'.op = op /\ call'.obj \in GASIds
CalledIAS(op) == call'.op = op /\ call'.obj \in IASIds

Flags(r) == <<r.readyToBuild, r.available, r.readyToCompact, r.compactedAvailable>>

AllClear == <<FALSE, FALSE, FALSE, FALSE>>

\* C3: for GAS and IAS alike, a rebuild that passes validation was preceded,
\* since the node was last marked dirty, by a successful prepareForBuild
\* (readyToBuild is set), and its output and scratch buffers are at least as
\* large as the sizes that prepareForBuild returned.
C3_RebuildNeedsPrepareAndSizes ==
    [][ /\ (CalledGAS("GAS::rebuild") /\ call'.ok) =>
              LET r == gas[call'.obj]
              IN  /\ r.readyToBuild
                  /\ r.prepared # {}
                  /\ \A req \in r.prepared :
                         /\ call'.args[1] >= req.outputSizeInBytes
                         /\ call'.args[2] >= req.tempSizeInBytes
        /\ (CalledIAS("IAS::rebuild") /\ call'.ok) =>
              LET r == ias[call'.obj]
              IN  /\ r.readyToBuild
                  /\ r.prepared # {}
                  /\ \A req \in r.prepared :
                         /\ call'.args[2] >= req.outputSizeInBytes
                         /\ call'.args[3] >= req.tempSizeInBytes ]_vars

\* A prepared GAS whose rebuild was rejected: only a buffer size can be the
\* reason, the children's buffers being valid.
C3_Witness ==
    /\ call.op = "GAS::rebuild" /\ ~call.ok
    /\ gas[call.obj].readyToBuild
    /\ gas[call.obj].prepared # {}

\* C4: for GAS and IAS alike, a compact that passes validation was preceded
\* by a prepareForCompact later than the last rebuild (readyToCompact is set),
\* compaction is enabled, the uncompacted AS is available and the buffer is at
\* least as large as the compacted size read back.
C4_CompactNeedsPrepareAndSize ==
    [][ /\ (CalledGAS("GAS::compact") /\ call'.ok) =>
              LET r == gas[call'.obj]
              IN  /\ r.readyToCompact
                  /\ r.sized # {}
                  /\ r.allowCompaction
                  /\ "ALLOW_COMPACTION" \in r.buildFlags
                  /\ r.available
                  /\ \A size \in r.sized : call'.args[1] >= size
        /\ (CalledIAS("IAS::compact") /\ call'.ok) =>
              LET r == ias[call'.obj]
              IN  /\ r.readyToCompact
                  /\ r.sized # {}
                  /\ r.allowCompaction
                  /\ "ALLOW_COMPACTION" \in r.buildFlags
                  /\ r.available
                  /\ \A size \in r.sized : call'.args[1] >= size ]_vars

\* A built GAS with compaction enabled whose compact was rejected because
\* prepareForCompact had not been called since the rebuild.
C4_Witness ==
    /\ call.op = "GAS::compact" /\ ~call.ok
    /\ gas[call.obj].available
    /\ gas[call.obj].allowCompaction
    /\ ~gas[call.obj].readyToCompact

\* C5: for GAS and IAS alike, prepareForCompact passes validation exactly
\* when the configuration in effect allows compaction and the uncompacted AS
\* is available; it then changes nothing at all when a compacted AS exists and
\* sets readyToCompact otherwise; a rejected call changes nothing.
C5_PrepareForCompact ==
    [][ /\ CalledGAS("GAS::prepareForCompact") =>
              LET r == gas[call'.obj]
              IN  /\ call'.ok <=> (r.allowCompaction /\ r.available)
                  /\ (~call'.ok \/ r.compactedAvailable) =>
                         UNCHANGED <<sceneVars, nodeVars>>
                  /\ (call'.ok /\ ~r.compactedAvailable) =>
                         gas'[call'.obj].readyToCompact
        /\ CalledIAS("IAS::prepareForCompact") =>
              LET r == ias[call'.obj]
              IN  /\ call'.ok <=> (r.allowCompaction /\ r.available)
                  /\ (~call'.ok \/ r.compactedAvailable) =>
                         UNCHANGED <<sceneVars, nodeVars>>
                  /\ (call'.ok /\ ~r.compactedAvailable) =>
                         ias'[call'.obj].readyToCompact ]_vars

\* An IAS that is already compacted and still has its uncompacted AS: the
\* call returned and was a no-op.
C5_Witness ==
    /\ call.op = "IAS::prepareForCompact" /\ call.ok
    /\ ias[call.obj].compactedAvailable

\* C6: for GAS and IAS alike, an update that passes validation finds
\* allowUpdate set in the configuration in effect and the uncompacted or the
\* compacted AS available.
C6_UpdateNeedsAllowAndBuilt ==
    [][ /\ (CalledGAS("GAS::update") /\ call'.ok) =>
              LET r == gas[call'.obj]
              IN  r.allowUpdate /\ (r.available \/ r.compactedAvailable)
        /\ (CalledIAS("IAS::update") /\ call'.ok) =>
              LET r == ias[call'.obj]
              IN  r.allowUpdate /\ (r.available \/ r.compactedAvailable) ]_vars

\* A GAS that allows updates and had been built (its handle is still there),
\* marked dirty since: the update was rejected.
C6_Witness ==
    /\ call.op = "GAS::update" /\ ~call.ok
    /\ gas[call.obj].allowUpdate
    /\ gas[call.obj].handle # 0
    /\ ~gas[call.obj].available /\ ~gas[call.obj].compactedAvailable

\* C7: in every reachable state of every GAS and IAS, compactedAvailable
\* implies readyToCompact, available or compactedAvailable implies
\* readyToBuild, and readyToCompact or compactedAvailable implies that the
\* configuration has allowCompaction set; a compacted AS exists only after a
\* prepareForBuild and a prepareForCompact of the current dirty cycle.
FlagsInOrder(r) ==
    /\ r.compactedAvailable => r.readyToCompact
    /\ (r.available \/ r.compactedAvailable) => r.readyToBuild
    /\ (r.readyToCompact \/ r.compactedAvailable) => r.allowCompaction
    /\ r.compactedAvailable => (r.prepared # {} /\ r.sized # {})

C7_FlagsInOrder ==
    /\ \A g \in LiveGAS : FlagsInOrder(gas[g])
    /\ \A i \in LiveIAS : FlagsInOrder(ias[i])

\* A GAS that went all the way to a compacted AS.
C7_Witness ==
    \E g \in LiveGAS : gas[g].compactedAvailable /\ call.op = "GAS::compact"

\* C8: every successful addChild / removeChild, every setMotionOptions and
\* every setConfiguration that changes a setting leaves the four lifecycle
\* flags of the node cleared; on a GAS the Scene's SBT layout is dirty
\* afterwards as well.
C8_EditsMarkDirty ==
    [][ /\ ( \/ (CalledGAS("GAS::addChild") /\ call'.ok)
             \/ (CalledGAS("GAS::removeChild") /\ call'.ok)
             \/ CalledGAS("GAS::setMotionOptions")
             \/ /\ CalledGAS("GAS::setConfiguration") /\ call'.ok
                /\ <<gas[call'.obj].tradeoff, gas[call'.obj].allowUpdate,
                     gas[call'.obj].allowCompaction,
                     gas[call'.obj].allowRandomVertexAccess>> # call'.args )
           => /\ Flags(gas'[call'.obj]) = AllClear
              /\ ~sbtLayoutIsUpToDate'
        /\ ( \/ (CalledIAS("IAS::addChild") /\ call'.ok)
             \/ (CalledIAS("IAS::removeChild") /\ call'.ok)
             \/ CalledIAS("IAS::setMotionOptions")
             \/ /\ CalledIAS("IAS::setConfiguration") /\ call'.ok
                /\ <<ias[call'.obj].tradeoff, ias[call'.obj].allowUpdate,
                     ias[call'.obj].allowCompaction>> # call'.args )
           => Flags(ias'[call'.obj]) = AllClear ]_vars

\* A GAS that had been built and compacted (both handles are still there)
\* right after a child was added to it.
C8_Witness ==
    /\ call.op = "GAS::addChild" /\ call.ok
    /\ gas[call.obj].handle # 0
    /\ gas[call.obj].compactedHandle # 0

\* C13: for GAS and IAS alike, a rebuild that returns sets available and
\* clears readyToCompact, compactedAvailable and the compacted handle;
\* getHandle then returns the handle just built, no compact with any buffer
\* passes validation, and a compact that does pass finds a compacted size
\* read back by a prepareForCompact later than the last rebuild.
C13_RebuildResetsCompaction ==
    [][ /\ (CalledGAS("GAS::rebuild") /\ call'.ok) =>
              LET r == gas'[call'.obj]
              IN  /\ r.available /\ ~r.readyToCompact /\ ~r.compactedAvailable
                  /\ r.compactedHandle = 0
                  /\ r.handle = call'.ret
                  /\ GASPriv_getHandle(r) = call'.ret
                  /\ r.sized = {}
                  /\ \A b \in BufferSizes : ~GAS_compactValid(r, b)
        /\ (CalledIAS("IAS::rebuild") /\ call'.ok) =>
              LET r == ias'[call'.obj]
              IN  /\ r.available /\ ~r.readyToCompact /\ ~r.compactedAvailable
                  /\ r.compactedHandle = 0
                  /\ r.handle = call'.ret
                  /\ IASPriv_getHandle(r) = call'.ret
                  /\ r.sized = {}
                  /\ \A b \in BufferSizes : ~IAS_compactValid(r, b)
        /\ (CalledGAS("GAS::compact") /\ call'.ok) => gas[call'.obj].sized # {}
        /\ (CalledIAS("IAS::compact") /\ call'.ok) => ias[call'.obj].sized # {} ]_vars

\* A GAS rebuilt after a prepareForCompact had read back a compacted size
\* other than the one the node started with.
C13_Witness ==
    /\ call.op = "GAS::rebuild" /\ call.ok
    /\ gas[call.obj].compactedSize = MaxAccelSize
    /\ gas[call.obj].allowCompaction

\* C14: for GAS and IAS alike, a compact that returns sets
\* compactedAvailable and leaves available, the uncompacted handle,
\* readyToBuild and readyToCompact as they were.
C14_CompactKeepsUncompacted ==
    [][ /\ (CalledGAS("GAS::compact") /\ call'.ok) =>
              LET r == gas[call'.obj]
                  q == gas'[call'.obj]
              IN  /\ q.compactedAvailable
                  /\ <<q.available, q.handle, q.readyToBuild, q.readyToCompact>>
                       = <<r.available, r.handle, r.readyToBuild, r.readyToCompact>>
        /\ (CalledIAS("IAS::compact") /\ call'.ok) =>
              LET r == ias[call'.obj]
                  q == ias'[call'.obj]
              IN  /\ q.compactedAvailable
                  /\ <<q.available, q.handle, q.readyToBuild, q.readyToCompact>>
                       = <<r.available, r.handle, r.readyToBuild, r.readyToCompact>>
      ]_vars

\* An IAS right after its compact: both structures are there.
C14_Witness ==
    /\ call.op = "IAS::compact" /\ call.ok
    /\ ias[call.obj].available /\ ias[call.obj].handle # 0
    /\ ias[call.obj].compactedAvailable /\ ias[call.obj].compactedHandle # 0

\* C15: for GAS and IAS alike, removeUncompacted changes nothing unless a
\* compacted AS is available and compaction is enabled; otherwise it clears
\* available and the uncompacted handle, the node is still ready, getHandle
\* returns the compacted handle, and neither prepareForCompact nor compact
\* with any buffer passes validation; available is set again by rebuild only.
C15_RemoveUncompacted ==
    [][ /\ CalledGAS("GAS::removeUncompacted") =>
              LET r == gas[call'.obj]
                  q == gas'[call'.obj]
              IN  IF r.compactedAvailable /\ "ALLOW_COMPACTION" \in r.buildFlags
                  THEN /\ ~q.available /\ q.handle = 0
                       /\ GASPriv_isReady(q)
                       /\ GASPriv_getHandle(q) = r.compactedHandle
                       /\ r.compactedHandle # 0
                       /\ ~GAS_prepareForCompactValid(q)
                       /\ \A b \in BufferSizes : ~GAS_compactValid(q, b)
                  ELSE UNCHANGED <<sceneVars, nodeVars>>
        /\ CalledIAS("IAS::removeUncompacted") =>
              LET r == ias[call'.obj]
                  q == ias'[call'.obj]
              IN  IF r.compactedAvailable /\ "ALLOW_COMPACTION" \in r.buildFlags
                  THEN /\ ~q.available /\ q.handle = 0
                       /\ IASPriv_isReady(q)
                       /\ IASPriv_getHandle(q) = r.compactedHandle
                       /\ r.compactedHandle # 0
                       /\ ~IAS_prepareForCompactValid(q)
                       /\ \A b \in BufferSizes : ~IAS_compactValid(q, b)
                  ELSE UNCHANGED <<sceneVars, nodeVars>>
        /\ \A g \in LiveGAS :
               (~gas[g].available /\ gas'[g].available) => CalledGAS("GAS::rebuild")
        /\ \A i \in LiveIAS :
               (~ias[i].available /\ ias'[i].available) => CalledIAS("IAS::rebuild")
      ]_vars

\* A GAS whose uncompacted AS was discarded: only the compacted one is left.
C15_Witness ==
    /\ call.op = "GAS::removeUncompacted"
    /\ gas[call.obj].compactedAvailable
    /\ ~gas[call.obj].available /\ gas[call.obj].handle = 0

\* C16: for GAS and IAS alike, an update that returns leaves the four
\* lifecycle flags and both stored handles as they were, and works on the
\* compacted AS when compactedAvailable is set and on the uncompacted AS
\* otherwise.
C16_UpdateIsSelfTransition ==
    [][ /\ (CalledGAS("GAS::update") /\ call'.ok) =>
              LET r == gas[call'.obj]
                  q == gas'[call'.obj]
              IN  /\ Flags(q) = Flags(r)
                  /\ q.handle = r.handle /\ q.compactedHandle = r.compactedHandle
                  /\ call'.target = IF r.compactedAvailable
                                    THEN "compactedAccelBuffer" ELSE "accelBuffer"
                  /\ call'.ret = IF r.compactedAvailable
                                 THEN r.compactedHandle ELSE r.handle
        /\ (CalledIAS("IAS::update") /\ call'.ok) =>
              LET r == ias[call'.obj]
                  q == ias'[call'.obj]
              IN  /\ Flags(q) = Flags(r)
                  /\ q.handle = r.handle /\ q.compactedHandle = r.compactedHandle
                  /\ call'.target = IF r.compactedAvailable
                                    THEN "compactedAccelBuffer" ELSE "accelBuffer"
                  /\ call'.ret = IF r.compactedAvailable
                                 THEN r.compactedHandle ELSE r.handle ]_vars

\* A compacted GAS that still has its uncompacted AS, right after an update:
\* the update worked on the compacted one.
C16_Witness ==
    /\ call.op = "GAS::update" /\ call.ok
    /\ call.target = "compactedAccelBuffer"
    /\ gas[call.obj].available /\ gas[call.obj].compactedAvailable

\* C18: for GAS and IAS alike, when prepareForCompact passes validation and
\* does not return early, the finishEvent it waits for was recorded after the
\* last build or update issued for the node.
C18_PrepareForCompactWaitsForLastOperation ==
    [][ /\ (CalledGAS("GAS::prepareForCompact") /\ call'.ok
              /\ ~gas[call'.obj].compactedAvailable)
           => gas[call'.obj].finishEventCurrent
        /\ (CalledIAS("IAS::prepareForCompact") /\ call'.ok
              /\ ~ias[call'.obj].compactedAvailable)
           => ias[call'.obj].finishEventCurrent ]_vars

\* The calls on a GAS or IAS that validate their arguments and the node
MutatingCalls ==
    {"GAS::addChild", "GAS::removeChild", "GAS::setConfiguration",
     "GAS::setNumRayTypes", "GAS::prepareForBuild", "GAS::rebuild",
     "GAS::prepareForCompact", "GAS::compact", "GAS::update",
     "IAS::addChild", "IAS::removeChild", "IAS::setConfiguration",
     "IAS::prepareForBuild", "IAS::rebuild", "IAS::prepareForCompact",
     "IAS::compact", "IAS::update"}

\* C19: a call of addChild, removeChild, setConfiguration, setNumRayTypes,
\* prepareForBuild, rebuild, prepareForCompact, compact or update on a GAS or
\* IAS that throws leaves every node and the Scene's layout state as they
\* were.
C19_FailedCallChangesNothing ==
    [][(call'.op \in MutatingCalls /\ ~call'.ok)
          => UNCHANGED <<sceneVars, nodeVars>>]_vars


\* ---------------------------------------------- properties of SpecLayout
Generated == call'.op = "Scene::generateShaderBindingTableLayout"

\* What a generateShaderBindingTableLayout call does given the history h of
\* successful addChild / removeChild calls: it recomputes when there was one
\* (or no earlier call), and otherwise returns the cached values.
RecomputesIffEdited(h) ==
    /\ call'.recomputed <=> h \in {"first", "child"}
    /\ ~call'.recomputed =>
           /\ call'.ok
           /\ call'.ret = Scene_memorySize
           /\ UNCHANGED <<singleRecordSize, numSBTRecords, sbtOffsets>>

\* C1 as stated: with addChild / removeChild as the only edits, a
\* generateShaderBindingTableLayout call recomputes the layout if and only
\* if a successful addChild / removeChild happened since the previous
\* generateShaderBindingTableLayout call, or there was no such call.
C1_RecomputeIffEditedSinceCall ==
    [][ (Generated /\ edits # "other") => RecomputesIffEdited(edits) ]_vars

\* C1, amended: with addChild / removeChild as the only edits, a
\* generateShaderBindingTableLayout call recomputes the layout if and only
\* if a successful addChild / removeChild happened since the previous
\* generateShaderBindingTableLayout call that returned, or no call has
\* returned yet; a call that throws leaves the layout to be recomputed.
C1_RecomputeIffEditedSinceReturn ==
    [][ (Generated /\ editsDone # "other") => RecomputesIffEdited(editsDone) ]_vars

\* The layout was recomputed for a GAS that has a child with a material:
\* records were counted.
C1_Witness ==
    /\ call.op = "Scene::generateShaderBindingTableLayout"
    /\ call.ok /\ call.recomputed
    /\ numSBTRecords > 0
    /\ editsDone = "none"

\* C2: a generateShaderBindingTableLayout call right after one that returned
\* returns the same memory size, takes the cached path and leaves
\* singleRecordSize, numSBTRecords and sbtOffsets as they are.
C2_GenerateIdempotent ==
    [][ ( /\ call.op = "Scene::generateShaderBindingTableLayout" /\ call.ok
          /\ Generated )
        => /\ call'.ok
           /\ ~call'.recomputed
           /\ call'.ret = call.ret
           /\ UNCHANGED <<singleRecordSize, numSBTRecords, sbtOffsets,
                          sbtLayoutIsUpToDate>> ]_vars

\* The second of two calls in a row, over a layout that has entries.
C2_Witness ==
    /\ call.op = "Scene::generateShaderBindingTableLayout"
    /\ call.ok /\ ~call.recomputed
    /\ edits = "none"
    /\ DOMAIN sbtOffsets # {}
    /\ numSBTRecords > 0

\* ----------------------------------------------- properties of SpecDirty
\* C9 as stated: a setNumRayTypes that returned leaves the GAS's available
\* and compactedAvailable false, the Scene's SBT layout dirty and every IAS
\* of the Scene dirty.
C9_SetNumRayTypesDirtiesGAS ==
    [][ (CalledGAS("GAS::setNumRayTypes") /\ call'.ok)
        => /\ ~gas'[call'.obj].available
           /\ ~gas'[call'.obj].compactedAvailable
           /\ ~sbtLayoutIsUpToDate'
           /\ \A i \in LiveIAS : Flags(ias'[i]) = AllClear ]_vars

\* C9, amended: a setNumRayTypes that returned leaves the four lifecycle
\* flags of the GAS as they were, the Scene's SBT layout dirty and every IAS
\* of the Scene dirty.
C9_SetNumRayTypesDirtiesLayout ==
    [][ (CalledGAS("GAS::setNumRayTypes") /\ call'.ok)
        => /\ Flags(gas'[call'.obj]) = Flags(gas[call'.obj])
           /\ ~sbtLayoutIsUpToDate'
           /\ \A i \in LiveIAS : Flags(ias'[i]) = AllClear ]_vars

\* setNumRayTypes on a GAS that is built and compacted, in a Scene whose IAS
\* had been built before.
C9_Witness ==
    /\ call.op = "GAS::setNumRayTypes" /\ call.ok
    /\ gas[call.obj].available /\ gas[call.obj].compactedAvailable
    /\ \E i \in LiveIAS : ias[i].handle # 0

\* C10: when setNumMaterialSets, setNumRayTypes or a GAS becoming dirty marks
\* the Scene's SBT layout dirty, the four lifecycle flags of every IAS of the
\* Scene are cleared; the flags of every GAS stay as they were, unless it is
\* the GAS that became dirty, whose flags its own markDirty clears.
C10_LayoutDirtyClearsIASOnly ==
    [][ /\ ( \/ CalledGAS("GAS::setNumMaterialSets")
             \/ (CalledGAS("GAS::setNumRayTypes") /\ call'.ok) )
           => /\ ~sbtLayoutIsUpToDate'
              /\ \A i \in LiveIAS : Flags(ias'[i]) = AllClear
              /\ \A g \in LiveGAS : Flags(gas'[g]) = Flags(gas[g])
        /\ ( \/ CalledGAS("GAS::markDirty")
             \/ (CalledGAS("GAS::setConfiguration") /\ gas' # gas) )
           => /\ ~sbtLayoutIsUpToDate'
              /\ \A i \in LiveIAS : Flags(ias'[i]) = AllClear
              /\ Flags(gas'[call'.obj]) = AllClear ]_vars

\* setNumMaterialSets on a built GAS, in a Scene whose IAS had been built and
\* compacted before.
C10_Witness ==
    /\ call.op = "GAS::setNumMaterialSets"
    /\ gas[call.obj].available
    /\ \E i \in LiveIAS : ias[i].handle # 0 /\ ias[i].compactedHandle # 0

\* C17: an IAS prepareForBuild made while the Scene's SBT layout is not up
\* to date (no generateShaderBindingTableLayout has returned yet, or a call
\* marked the layout dirty since the last one returned) throws, and the IAS
\* is left as it was, readyToBuild cleared.
C17_PrepareForBuildNeedsLayout ==
    [][(CalledIAS("IAS::prepareForBuild")
          /\ (~sbtLayoutIsUpToDate \/ editsDone # "none"))
          => /\ ~call'.ok
             /\ ~sbtLayoutIsUpToDate
             /\ ~ias'[call'.obj].readyToBuild
             /\ ias' = ias]_vars

\* The layout had been generated (the offset map is filled) and was dirtied
\* since: prepareForBuild of the IAS was rejected.
C17_Witness ==
    /\ call.op = "IAS::prepareForBuild" /\ ~call.ok
    /\ sbtOffsets # <<>>
    /\ editsDone = "other"
    /\ ~sbtLayoutIsUpToDate

\* ------------------------------------------------ properties of SpecScene
\* C11: a call that creates a GAS under the Scene, or destroys one, leaves
\* the Scene's SBT layout marked dirty, so that the next
\* generateShaderBindingTableLayout recomputes the offset map.
C11_CreateDestroyMarkLayoutDirty ==
    [][call'.op \in {"Scene::createGeometryAccelerationStructure", "GAS::destroy"}
          => ~sbtLayoutIsUpToDate']_vars

\* C12: a successful setNumMaterials on a geometry instance, or setUserData
\* on a Material, GeometryInstance or GAS, that changes the record count or
\* the record size the Scene's GASs add up to (so the node is attached to a
\* GAS) leaves the Scene's SBT layout marked dirty.
C12_RecordEditsMarkLayoutDirty ==
    [][(/\ call'.ok
        /\ call'.op \in {"GeometryInstance::setNumMaterials",
                         "GeometryInstance::setUserData",
                         "Material::setUserData", "GAS::setUserData"}
        /\ \/ Scene_calcNumSBTRecords' # Scene_calcNumSBTRecords
           \/ Scene_calcSingleRecordSize(1, OPTIX_SBT_RECORD_HEADER_SIZE).size'
                  # Scene_calcSingleRecordSize(1, OPTIX_SBT_RECORD_HEADER_SIZE).size)
          => ~sbtLayoutIsUpToDate']_vars

\* ---------------------------------------------- properties of SpecRecords
\* The sum of the first n entries of a list of numbers
RECURSIVE SumOfFirst(_, _)
SumOfFirst(l, n) == IF n = 0 THEN 0 ELSE SumOfFirst(l, n - 1) + l[n]

\* The number of material slots of each child of a GAS, in child order
SlotsOfChildren(g) ==
    [k \in 1..Len(gas[g].children) |->
        Len(geomInst[gas[g].children[k].geomInst].materials)]

\* C20: what calcNumSBTRecords(matSetIdx) returns for a GAS is the sum, over
\* its children, of the child's number of material slots, times the number
\* of ray types of material set matSetIdx.
C20_NumSBTRecordsIsSumTimesRayTypes ==
    call.op = "GAS::calcNumSBTRecords" =>
        call.ret = SumOfFirst(SlotsOfChildren(call.obj),
                              Len(gas[call.obj].children))
                   * gas[call.obj].numRayTypesPerMaterialSet[call.args[1] + 1]

\* The example: one child with 3 materials, ray type counts {1, 2}, material
\* set 1 asked for: 6 records.
C20_Witness ==
    /\ call.op = "GAS::calcNumSBTRecords"
    /\ call.args = <<1>>
    /\ call.ret = 6
    /\ Len(gas[call.obj].children) = 1
    /\ SlotsOfChildren(call.obj) = <<3>>
    /\ gas[call.obj].numRayTypesPerMaterialSet = <<1, 2>>

\* ----------------------------------------------- properties of SpecStatic
\* Entry (r, c) of a 3x4 row-major matrix, r in 1..3, c in 1..4
At(m, r, c) == m[4 * (r - 1) + c]

\* The determinant of the 3x3 block, expanded along the first row
Det3(m) ==
    At(m, 1, 1) * (At(m, 2, 2) * At(m, 3, 3) - At(m, 2, 3) * At(m, 3, 2))
    - At(m, 1, 2) * (At(m, 2, 1) * At(m, 3, 3) - At(m, 2, 3) * At(m, 3, 1))
    + At(m, 1, 3) * (At(m, 2, 1) * At(m, 3, 2) - At(m, 2, 2) * At(m, 3, 1))

\* C21: setStaticTransform with a matrix whose 3x3 block has determinant
\* zero throws, and a setStaticTransform that throws leaves the stored
\* transform and inverse as they were.
C21_SingularMatrixRejected ==
    [][call'.op = "Transform::setStaticTransform"
          => /\ call'.ok => Det3(call'.args[1]) # 0
             /\ ~call'.ok => UNCHANGED xfm]_vars

\* Every entry of a stored matrix is a finite float
AllFinite(m) == \A k \in 1..12 : m[k].k = "fin"

\* The affine map "a after b" of two stored 3x4 matrices of finite floats
ComposedAffine(a, b) ==
    [k \in 1..12 |->
        LET r == ((k - 1) \div 4) + 1
            c == ((k - 1) % 4) + 1
        IN  At(a, r, 1).v * At(b, 1, c).v + At(a, r, 2).v * At(b, 2, c).v
            + At(a, r, 3).v * At(b, 3, c).v
            + (IF c = 4 THEN At(a, r, 4).v ELSE 0)]

\* C29: after a setStaticTransform with an invertible matrix, the stored
\* transform composed with the stored inverse is the identity affine map.
C29_StoredInverseInverts ==
    [][(call'.op = "Transform::setStaticTransform" /\ call'.ok
          /\ Det3(call'.args[1]) # 0)
          => LET d == xfm'[call'.obj].data
             IN  /\ AllFinite(d.transform) /\ AllFinite(d.invTransform)
                 /\ ComposedAffine(d.transform, d.invTransform) = IdentityMatrix
                 /\ ComposedAffine(d.invTransform, d.transform) = IdentityMatrix
       ]_vars

\* -------------------------------------------- properties of SpecChildren
NoRepetition(s) == \A j, k \in 1..Len(s) : s[j] = s[k] => j = k

ChildOf(args) == [geomInst |-> args[1], preTransform |-> args[2]]

\* C22: the children of a GAS never hold the same (GeometryInstance,
\* preTransform) pair twice and the children of an IAS never hold the same
\* Instance twice; an addChild that returns was given an entry the list did
\* not hold and appends it, a removeChild that returns was given an entry
\* the list held, and an addChild or removeChild that throws leaves the
\* list as it was.
C22_ChildrenDeduplicated ==
    [][/\ \A g \in LiveGAS : NoRepetition(gas'[g].children)
       /\ \A i \in LiveIAS : NoRepetition(ias'[i].children)
       /\ call'.op \in {"GAS::addChild", "GAS::removeChild"} =>
              LET before == gas[call'.obj].children
                  after  == gas'[call'.obj].children
              IN  /\ ~call'.ok => after = before
                  /\ (call'.ok /\ call'.op = "GAS::addChild") =>
                         /\ ChildOf(call'.args) \notin Range(before)
                         /\ after = Append(before, ChildOf(call'.args))
                  /\ (call'.ok /\ call'.op = "GAS::removeChild") =>
                         /\ ChildOf(call'.args) \in Range(before)
                         /\ ChildOf(call'.args) \notin Range(after)
       /\ call'.op \in {"IAS::addChild", "IAS::removeChild"} =>
              LET before == ias[call'.obj].children
                  after  == ias'[call'.obj].children
              IN  /\ ~call'.ok => after = before
                  /\ (call'.ok /\ call'.op = "IAS::addChild") =>
                         /\ call'.args[1] \notin Range(before)
                         /\ after = Append(before, call'.args[1])
                  /\ (call'.ok /\ call'.op = "IAS::removeChild") =>
                         /\ call'.args[1] \in Range(before)
                         /\ call'.args[1] \notin Range(after)]_vars

\* The GAS holds one GeometryInstance under both pre-transforms, the IAS
\* holds an Instance, and an addChild has just thrown.
C22_Witness ==
    /\ \E g \in LiveGAS : Len(gas[g].children) = 2
    /\ \E i \in LiveIAS : Len(ias[i].children) = 1
    /\ call.op \in {"GAS::addChild", "IAS::addChild"}
    /\ ~call.ok

\* C23: every child of a GAS has the GAS's primitive kind and Scene, and
\* while the GAS is ready to build or available every child has
\* max(numKeys, 1) motion steps.
C23_ChildrenAgreeWithGAS ==
    \A g \in LiveGAS : \A k \in 1..Len(gas[g].children) :
        LET gi == gas[g].children[k].geomInst
        IN  /\ GeometryInstance_getScene(gi) = "scene"
            /\ geomInst[gi].forCustomPrimitives = gas[g].forCustomPrimitives
            /\ (gas[g].readyToBuild \/ gas[g].available) =>
                   geomInst[gi].numMotionSteps = Max(gas[g].numKeys, 1)

\* ----------------------------------- the record ranges, under SpecScene
\* The (GAS, material set) pairs of the Scene
LayoutPairs ==
    UNION {{<<g, ms>> : ms \in 0..GAS_getNumMaterialSets(g) - 1} : g \in LiveGAS}

\* The record indices offset .. offset + calcNumSBTRecords - 1 of a pair
RecordRange(offsets, pair) ==
    {offsets[pair] + d : d \in 0..GAS_calcNumSBTRecords(pair[1], pair[2]) - 1}

RECURSIVE SumOfRecords(_)
SumOfRecords(pairs) ==
    IF pairs = {} THEN 0
    ELSE LET pair == CHOOSE q \in pairs : TRUE
         IN  GAS_calcNumSBTRecords(pair[1], pair[2]) + SumOfRecords(pairs \ {pair})

RecordRangesTile(offsets, total) ==
    /\ DOMAIN offsets = LayoutPairs
    /\ \A p, q \in LayoutPairs :
           p # q => RecordRange(offsets, p) \cap RecordRange(offsets, q) = {}
    /\ UNION {RecordRange(offsets, p) : p \in LayoutPairs} = 0..total - 1
    /\ total = SumOfRecords(LayoutPairs)

\* C24: when generateShaderBindingTableLayout has returned, the offset map
\* has an entry for exactly the (GAS, material set) pairs of the Scene, the
\* ranges of calcNumSBTRecords records starting at the offsets are pairwise
\* disjoint, their union is 0 .. numSBTRecords - 1, and numSBTRecords is the
\* sum of calcNumSBTRecords over the pairs.
C24_RecordRangesTile ==
    [][(call'.op = "Scene::generateShaderBindingTableLayout" /\ call'.ok)
          => RecordRangesTile(sbtOffsets, numSBTRecords)']_vars

\* ---------------------------------------------- properties of SpecStride
RoundedUp(size, alignment) ==
    CHOOSE n \in size..size + alignment - 1 : n % alignment = 0

\* The largest calcMaxRecordSizeAlign size over the GAS of the Scene and
\* their material sets (0 when there is none)
LargestRecordSize ==
    LET sizes == {GAS_calcMaxRecordSizeAlign(p[1], p[2]).sa.size : p \in LayoutPairs}
    IN  IF sizes = {} THEN 0 ELSE CHOOSE n \in sizes : \A k \in sizes : k <= n

\* C26: when generateShaderBindingTableLayout has returned, singleRecordSize
\* is the largest calcMaxRecordSizeAlign size over all GAS and material sets
\* rounded up to OPTIX_SBT_RECORD_ALIGNMENT (the header size when that is
\* larger): at least the header size and a multiple of
\* OPTIX_SBT_RECORD_ALIGNMENT.
C26_StrideIsRoundedMaximum ==
    [][(call'.op = "Scene::generateShaderBindingTableLayout" /\ call'.ok)
          => /\ singleRecordSize' >= OPTIX_SBT_RECORD_HEADER_SIZE
             /\ singleRecordSize' % OPTIX_SBT_RECORD_ALIGNMENT = 0
             /\ singleRecordSize' =
                    Max(OPTIX_SBT_RECORD_HEADER_SIZE,
                        RoundedUp(LargestRecordSize, OPTIX_SBT_RECORD_ALIGNMENT))]_vars

\* The stride generateShaderBindingTableLayout computes from the user data
\* as they are now
StrideIsCurrent ==
    LET r == Scene_calcSingleRecordSize(1, OPTIX_SBT_RECORD_HEADER_SIZE)
    IN  sbtLayoutIsUpToDate /\ r.ok /\ singleRecordSize = r.size

PartEnd(part) == part.offset + part.size

\* C27: with a stride generated from the current user data, every record
\* setupHitGroupSBT writes has the header at 0, then the material's, the
\* geometry instance's and the GAS's user data, none overlapping the one
\* before, each at a multiple of its alignment, and ends within the stride.
C27_RecordFitsInStride ==
    [][(call'.op = "Scene::setupHitGroupSBT" /\ StrideIsCurrent)
          => \A k \in 1..Len(call'.ret.writes) :
                 LET w == call'.ret.writes[k]
                 IN  /\ w.header.offset = 0
                     /\ w.material.offset >= PartEnd(w.header)
                     /\ w.geomInst.offset >= PartEnd(w.material)
                     /\ w.gasData.offset >= PartEnd(w.geomInst)
                     /\ w.material.offset % w.material.alignment = 0
                     /\ w.geomInst.offset % w.geomInst.alignment = 0
                     /\ w.gasData.offset % w.gasData.alignment = 0
                     /\ PartEnd(w.gasData) <= singleRecordSize]_vars

\* ------------------------------------------------ properties of SpecFill
\* The layout is the one generateShaderBindingTableLayout computes from the
\* Scene as it is now.
LayoutIsCurrent ==
    /\ sbtLayoutIsUpToDate
    /\ sbtOffsets = Scene_calcOffsets
    /\ numSBTRecords = Scene_calcNumSBTRecords

\* The records a fill pass wrote for a (GAS, material set) pair, in the
\* order written
WritesFor(writes, g, ms) ==
    SelectSeq(writes, LAMBDA w : w.gas = g /\ w.matSet = ms)

ComesBefore(v, w) ==
    \/ v.child < w.child
    \/ v.child = w.child /\ v.matIdx < w.matIdx
    \/ v.child = w.child /\ v.matIdx = w.matIdx /\ v.rayType < w.rayType

RECURSIVE TerminalChild(_)
TerminalChild(t) ==
    IF xfm[t].childType = "Transform" THEN TerminalChild(xfm[t].child)
    ELSE [type |-> xfm[t].childType, child |-> xfm[t].child]

\* What instance n leads to: its child, or the end of its Transform chain
ResolvedChild(n) ==
    IF inst[n].type = "Transform" THEN TerminalChild(inst[n].child)
    ELSE [type |-> inst[n].type, child |-> inst[n].child]

\* The child of instance n is ready
InstanceChildReady(n) ==
    CASE inst[n].type = "GAS"       -> GASPriv_isReady(gas[inst[n].child])
      [] inst[n].type = "IAS"       -> IASPriv_isReady(ias[inst[n].child])
      [] inst[n].type = "Transform" -> TransformPriv_isReady(xfm[inst[n].child])
      [] OTHER                      -> TRUE

\* C28: when InstanceAccelerationStructure::rebuild returns, the child of
\* every instance of the IAS is ready, and the sbtOffset of its record is
\* the offset the Scene's layout holds now for the GAS its current child
\* leads to and its current material set index (so the pair has an entry);
\* it is 0 when the child is an IAS or a Transform chain ending in an IAS.
\* A rebuild that meets a child that is not ready, or a pair without an
\* entry, therefore does not return.
C28_RebuildResolvesOffsets ==
    [][(call'.op = "IAS::rebuild" /\ call'.ok) =>
          LET i == call'.obj
          IN  /\ Len(ias'[i].instances) = Len(ias[i].children)
              /\ \A k \in 1..Len(ias[i].children) :
                    LET n == ias[i].children[k]
                        d == ResolvedChild(n)
                        key == <<d.child, inst[n].matSetIndex>>
                    IN  /\ InstanceChildReady(n)
                        /\ d.type = "GAS" =>
                              /\ key \in DOMAIN sbtOffsets
                              /\ ias'[i].instances[k] = sbtOffsets[key]
                        /\ d.type = "IAS" => ias'[i].instances[k] = 0]_vars

\* A rebuild has returned for an instance whose child is a chain of two
\* Transforms ending in a GAS, with a material set whose offset is not 0
C28_Witness ==
    /\ call.op = "IAS::rebuild" /\ call.ok
    /\ \E n \in InstIds :
          /\ ias[call.obj].children = <<n>>
          /\ inst[n].type = "Transform"
          /\ xfm[inst[n].child].childType = "Transform"
          /\ ResolvedChild(n).type = "GAS"
          /\ inst[n].matSetIndex > 0
          /\ ias[call.obj].instances[1] > 0

\* ----------------------------------------------- properties of SpecChain
\* The number of Transforms on the chain that starts at t
RECURSIVE ChainLength(_)
ChainLength(t) ==
    IF xfm[t].childType = "Transform" THEN 1 + ChainLength(xfm[t].child) ELSE 1

\* getDescendantGAS gives, for every Transform, the GAS its chain ends in,
\* and null when the chain ends in an IAS
DescendantIsTerminalGAS ==
    \A t \in TransformIds :
        /\ TerminalChild(t).type = "GAS" =>
              Transform_getDescendantGAS(t) = TerminalChild(t).child
        /\ TerminalChild(t).type = "IAS" => Transform_getDescendantGAS(t) = NULL

\* C30: however the Transforms are chained by setChild, getDescendantGAS of
\* a Transform is the GAS at the end of its chain, and null when the chain
\* ends in an IAS; the record prepareForBuild fills for an instance on a
\* Transform gets the layout offset of that GAS in the first case and
\* sbtOffset 0 in the second.
C30_DescendantGASOfChain ==
    [][/\ DescendantIsTerminalGAS'
       /\ (call'.op = "IAS::prepareForBuild" /\ call'.ok) =>
             LET i == call'.obj
             IN  \A k \in 1..Len(ias[i].children) :
                    LET n == ias[i].children[k]
                        d == ResolvedChild(n)
                    IN  inst[n].type = "Transform" =>
                           /\ d.type = "GAS" =>
                                 ias'[i].instances[k] =
                                     sbtOffsets[<<d.child, inst[n].matSetIndex>>]
                           /\ d.type = "IAS" => ias'[i].instances[k] = 0]_vars

\* prepareForBuild has returned for an instance on a chain of NumTransform
\* Transforms that ends in a GAS, and its record holds an offset that is
\* not 0
C30_Witness ==
    /\ call.op = "IAS::prepareForBuild" /\ call.ok
    /\ \E n \in InstIds :
          /\ ias[call.obj].children = <<n>>
          /\ inst[n].type = "Transform"
          /\ ChainLength(inst[n].child) = NumTransform
          /\ ResolvedChild(n).type = "GAS"
          /\ Transform_getDescendantGAS(inst[n].child) = ResolvedChild(n).child
          /\ ias[call.obj].instances[1] > 0

\* ----------------------------------------------- properties of SpecCycle
\* C31: whatever graph Transform::setChild has built, a getDescendantGAS
\* call returns.
C31_GetDescendantGASReturns ==
    [][call'.op = "Transform::getDescendantGAS" => call'.ok]_vars

\* ------------------------------------------- properties of SpecTransform
TransformEdits ==
    {"Transform::setConfiguration", "Transform::setMotionOptions",
     "Transform::setMatrixMotionKey", "Transform::setSRTMotionKey",
     "Transform::setStaticTransform", "Transform::setChild(GAS)",
     "Transform::setChild(IAS)", "Transform::setChild(Transform)"}

\* The child of a Transform is set and ready
TransformChildIsReady(r) ==
    CASE r.childType = "GAS"       -> GASPriv_isReady(gas[r.child])
      [] r.childType = "IAS"       -> IASPriv_isReady(ias[r.child])
      [] r.childType = "Transform" -> TransformPriv_isReady(xfm[r.child])
      [] OTHER                     -> FALSE

\* C32: a Transform::rebuild that returns was called on a Transform with a
\* configured type and a child that is set and ready, with a buffer of at
\* least the data size, and leaves the Transform ready; every
\* setConfiguration, setMotionOptions, set*MotionKey, setStaticTransform and
\* setChild that returns leaves it not ready; and a Transform that is not
\* ready becomes ready by a rebuild only.
C32_TransformReadyByRebuildOnly ==
    [][/\ (call'.op = "Transform::rebuild" /\ call'.ok) =>
             /\ xfm[call'.obj].type # "Invalid"
             /\ call'.args[1]
             /\ TransformChildIsReady(xfm[call'.obj])
             /\ TransformPriv_isReady(xfm'[call'.obj])
       /\ (call'.op \in TransformEdits /\ call'.ok) =>
             ~TransformPriv_isReady(xfm'[call'.obj])
       /\ \A t \in TransformIds :
             (TransformPriv_isReady(xfm'[t]) /\ ~TransformPriv_isReady(xfm[t])) =>
                 call'.op = "Transform::rebuild" /\ call'.obj = t /\ call'.ok]_vars

\* A Transform that was built on another Transform has been given a motion
\* key and is not ready any more
C32_Witness ==
    /\ call.op = "Transform::setMatrixMotionKey" /\ call.ok
    /\ xfm[call.obj].handle = MaxHandle
    /\ xfm[call.obj].childType = "Transform"
    /\ ~TransformPriv_isReady(xfm[call.obj])

\* C33: a setMatrixMotionKey / setSRTMotionKey call that returns has written
\* a key with an index in [0, numKeys); every other call of the two reports
\* a validation failure and leaves the Transform as it was.
C33_KeyIndexInRange ==
    [][call'.op \in {"Transform::setMatrixMotionKey", "Transform::setSRTMotionKey"} =>
          IF call'.ok
          THEN call'.args[1] \in 0..xfm[call'.obj].numKeys - 1
          ELSE call'.ret # DoesNotReturn /\ xfm' = xfm]_vars

\* ---------------------------------------------- properties of SpecSelect
\* The Material the records of slot `slot' are for in GAS material set s:
\* the one bound for that set where the slot has the set and it is bound,
\* otherwise the one of material set 0.
SelectedMaterial(slot, s) ==
    IF s < Len(slot) /\ slot[s + 1] # NULL THEN slot[s + 1] ELSE slot[1]

\* Every slot of every child of every GAS of the Scene has a Material in
\* material set 0
DefaultMaterialsSet ==
    \A k \in 1..Len(geomASs) : \A c \in 1..Len(gas[geomASs[k]].children) :
        LET mats == geomInst[gas[geomASs[k]].children[c].geomInst].materials
        IN  \A i \in 1..Len(mats) : mats[i][1] # NULL

\* The stride that fits the record of every (GAS, material set, child, slot)
\* when no GeometryInstance and no GAS has user data
SelectedStride ==
    LET sizes == {SizeAlign_alignUp(
                      SizeAlign_plus(
                          SizeAlign(OPTIX_SBT_RECORD_HEADER_SIZE,
                                    OPTIX_SBT_RECORD_ALIGNMENT),
                          material[SelectedMaterial(
                                       geomInst[gas[g].children[c].geomInst].materials[i],
                                       s)].userDataSizeAlign)).size :
                      <<g, s, c, i>> \in
                          {q \in Range(geomASs) \X (0..RecMaxMatSets) \X (1..1)
                                 \X (1..SelectNumMaterials) :
                              /\ q[2] < GAS_getNumMaterialSets(q[1])
                              /\ q[3] <= Len(gas[q[1]].children)}}
    IN  CHOOSE n \in sizes : \A o \in sizes : o <= n

\* C34: the size pass (calcMaxRecordSizeAlign, run by
\* generateShaderBindingTableLayout) and the fill pass (fillSBTRecords, run
\* by setupHitGroupSBT) take, for slot i and GAS material set s, the
\* Material bound to the slot for set s where that set exists for the slot
\* and is bound, and the slot's Material of set 0 otherwise; both throw when
\* some slot has no Material in set 0.
C34_SameMaterialSizedAndFilled ==
    [][/\ (call'.op = "Scene::generateShaderBindingTableLayout" /\ call'.recomputed) =>
             /\ call'.ok <=> DefaultMaterialsSet
             /\ call'.ok => singleRecordSize' = SelectedStride
       /\ call'.op = "Scene::setupHitGroupSBT" =>
             /\ call'.ok => DefaultMaterialsSet
             /\ (~DefaultMaterialsSet) => ~call'.ok
             /\ \A n \in 1..Len(call'.ret.writes) :
                    LET w  == call'.ret.writes[n]
                        gi == gas[w.gas].children[w.child + 1].geomInst
                    IN  w.material.size =
                            material[SelectedMaterial(
                                         geomInst[gi].materials[w.matIdx + 1],
                                         w.matSet)].userDataSizeAlign.size]_vars

\* Records were written for a slot that has the second Material in the last
\* material set and the first one in set 0, and for a slot that ends before
\* the last material set
C34_Witness ==
    /\ call.op = "Scene::setupHitGroupSBT" /\ call.ok
    /\ sbtLayoutIsUpToDate
    /\ LET mats == geomInst[NumGeomInst].materials
       IN  /\ Len(mats[1]) = RecMaxMatSets
           /\ mats[1][RecMaxMatSets] = NumMaterial + 1
           /\ mats[1][1] = NumMaterial
           /\ Len(mats[SelectNumMaterials]) < RecMaxMatSets
    /\ \E n \in 1..Len(call.ret.writes) :
           /\ call.ret.writes[n].matSet = RecMaxMatSets - 1
           /\ call.ret.writes[n].matIdx = 0
           /\ call.ret.writes[n].material.size = SelectUserData(NumMaterial + 1).size

\* ------------------------------------------- properties of SpecSizeAlign
LargestAlignment == CHOOSE a \in AddAlignments : \A b \in AddAlignments : b <= a

\* C35: when items of the alignments 4, 8 and 16 are added to an empty
\* SizeAlign in any order, with any sizes, every offset handed back is a
\* multiple of the alignment of the item added, and the size after the last
\* add is a multiple of the largest of the alignments, 16.
C35_AddAlignsOffsetsAndSize ==
    [][call'.op = "SizeAlign::add" =>
          /\ call'.ret.offset % call'.args[2] = 0
          /\ call'.ret.added = AddAlignments =>
                 call'.ret.sa.size % LargestAlignment = 0]_vars

\* C35 as the code has it: every offset handed back is a multiple of the
\* alignment of the item added; the size after an add is that offset plus
\* the size of the item; it is alignUp that makes the size a multiple of the
\* largest alignment added.
C35_AddAlignsOffsetsAlignUpAlignsSize ==
    [][/\ call'.op = "SizeAlign::add" =>
             /\ call'.ret.offset % call'.args[2] = 0
             /\ call'.ret.offset >= call.ret.sa.size
             /\ call'.ret.offset < call.ret.sa.size + call'.args[2]
             /\ call'.ret.sa.size = call'.ret.offset + call'.args[1]
       /\ (call'.op = "SizeAlign::alignUp" /\ call'.ret.added = AddAlignments) =>
             /\ call'.ret.sa.alignment = LargestAlignment
             /\ call'.ret.sa.size % LargestAlignment = 0
             /\ call'.ret.sa.size >= call.ret.sa.size
             /\ call'.ret.sa.size < call.ret.sa.size + LargestAlignment]_vars

\* All three items are added, the one of alignment 16 first, and alignUp has
\* moved the size forward
C35_Witness ==
    /\ call.op = "SizeAlign::alignUp"
    /\ call.ret.added = AddAlignments
    /\ call.ret.from.alignment = LargestAlignment
    /\ call.ret.sa.size > call.ret.from.size
    /\ call.ret.from.size > LargestAlignment

\* ---------------------------------------- further properties of SpecStride
IsPowerOfTwo(a) == a > 0 /\ BitAnd(a, a - 1) = 0

\* C36: a setUserData call of a Material, a GeometryInstance or a GAS
\* returns only for an alignment that is a power of two, so the alignment of
\* every user data SizeAlign that the records are packed from is a power of
\* two.
C36_UserDataAlignmentIsPowerOfTwo ==
    [][/\ (/\ call'.op \in {"Material::setUserData", "GeometryInstance::setUserData",
                            "GAS::setUserData"}
           /\ call'.ok) => IsPowerOfTwo(call'.args[2])
       /\ \A m \in DOMAIN material :
              IsPowerOfTwo(material'[m].userDataSizeAlign.alignment)
       /\ \A gi \in DOMAIN geomInst :
              IsPowerOfTwo(geomInst'[gi].userDataSizeAlign.alignment)
       /\ \A g \in DOMAIN gas :
              IsPowerOfTwo(gas'[g].userDataSizeAlign.alignment)]_vars

\* ----------------------------------------- further properties of SpecScene
\* C37: while the layout is marked up to date, the cached record count, the
\* cached offsets and the cached stride are the ones a recomputation from
\* the Scene as it is now gives.
C37_CachedLayoutIsCurrent ==
    sbtLayoutIsUpToDate =>
        /\ numSBTRecords = Scene_calcNumSBTRecords
        /\ sbtOffsets = Scene_calcOffsets
        /\ LET r == Scene_calcSingleRecordSize(1, OPTIX_SBT_RECORD_HEADER_SIZE)
           IN  r.ok /\ singleRecordSize = r.size

\* ----------------------------------------- further properties of SpecDirty
\* C38: an IAS of the Scene that is ready to build, available or available
\* in compacted form exists only while the Scene's SBT layout is up to date.
C38_ReadyIASHasCurrentLayout ==
    \A i \in instASs :
        (ias[i].readyToBuild \/ ias[i].available \/ ias[i].compactedAvailable)
            => sbtLayoutIsUpToDate

\* A GAS was given its material sets, which marked the layout dirty; the
\* layout was generated, and the IAS has been prepared and built on it
C38_Witness ==
    /\ call.op = "IAS::rebuild" /\ call.ok
    /\ call.obj \in instASs
    /\ ias[call.obj].available
    /\ sbtLayoutIsUpToDate
    /\ \E g \in LiveGAS : Len(gas[g].numRayTypesPerMaterialSet) > 0

\* ---------------------------------------------- properties of SpecLaunch
\* C39: a Pipeline::launch passes its validation only when the Pipeline's
\* SBT layout is up to date, its SBT and its hit group SBT are set, its
\* Scene is set, and every GAS, every Transform and every IAS of the Scene
\* is ready and the Scene's SBT layout is up to date; a launch that does not
\* pass throws with nothing uploaded, nothing dispatched and the Pipeline as
\* it was.
C39_LaunchNeedsReadyScene ==
    [][call'.op = "Pipeline::launch" =>
          /\ call'.ret.validated =>
                 /\ pipeline.sbtLayoutIsUpToDate
                 /\ pipeline.sbt.valid
                 /\ pipeline.hitGroupSbt.valid
                 /\ pipeline.scene = "scene"
                 /\ \A g \in Range(geomASs) : GASPriv_isReady(gas[g])
                 /\ \A t \in TransformIds : TransformPriv_isReady(xfm[t])
                 /\ \A i \in instASs : IASPriv_isReady(ias[i])
                 /\ sbtLayoutIsUpToDate
          /\ ~call'.ret.validated =>
                 /\ ~call'.ok
                 /\ ~call'.ret.uploaded
                 /\ ~call'.ret.filled
                 /\ ~call'.ret.dispatched
                 /\ pipeline' = pipeline]_vars

\* A launch on a Scene whose last Transform and IAS have been built has
\* uploaded the SBT, filled the hit group SBT and dispatched
C39_Witness ==
    /\ call.op = "Pipeline::launch" /\ call.ok
    /\ call.ret.uploaded /\ call.ret.filled /\ call.ret.dispatched
    /\ xfm[NumTransform].available
    /\ ias[NumIAS].available
    /\ Len(pipeline.hitGroupRecords) = MaxRayTypes

\* C40: when a launch dispatches, the hit group SBT on the device holds the
\* records of the Scene's current layout; where it held others before the
\* launch (the layout was generated anew since they were written), the
\* launch has run setupHitGroupSBT.
C40_LaunchRefillsAfterNewLayout ==
    [][(call'.op = "Pipeline::launch" /\ call'.ret.dispatched) =>
          /\ pipeline'.hitGroupRecords = Scene_fillGASs(0).writes
          /\ pipeline'.sbtParams.hitgroupRecordStrideInBytes = singleRecordSize
          /\ pipeline.hitGroupRecords # Scene_fillGASs(0).writes => call'.ret.filled]_vars

============================================================================
